---------------------------- MODULE Spec2Model ----------------------------
(***************************************************************************)
(* A model of guides/mcp/code-reviewer/reviewer.py: the repository         *)
(* introspection tool init_repo_context, the bounded reader and parsers it *)
(* uses, the process-wide cache that review_pr reads, and the choice of    *)
(* the repository root (_repo_root, set_repo_root).                        *)
(*                                                                         *)
(* Representation.                                                         *)
(*  - A Python str or bytes value is a TLA+ string; one character is one   *)
(*    byte of a file or one code point of a text.  Three ASCII characters  *)
(*    stand for bytes above 0x7F (BYTE_LEAD, BYTE_CONT, BYTE_BAD) and two  *)
(*    for the non-ASCII code points a decoding can yield (CHAR_E,          *)
(*    CHAR_REPL); no modelled file uses them for anything else.            *)
(*  - json.loads and tomllib.loads are library code; the model keeps their *)
(*    contract: a value, a decode error, or a RecursionError on a document *)
(*    nested deeper than the interpreter allows.  In a JSON or TOML        *)
(*    manifest one character stands for the bytes of one member or table   *)
(*    (JSON_MEMBERS, TOML_TABLES) and is one unit of the byte cap.         *)
(*  - A Python dict is a sequence of [k, v] entries with unique keys, in   *)
(*    insertion order; None or a missing value is <<>> and a present one   *)
(*    <<v>>.                                                               *)
(***************************************************************************)
EXTENDS Integers, Sequences, FiniteSets, TLC

VARIABLES
    fs,            \* the repository root: catalog name -> [kind, data]
    workflows_dir, \* .github/workflows: <<>> (no directory) or <<set of entry names>>
    cache,         \* _LAST_REPO_CONTEXT: <<>> (None) or <<payload>>
    log,           \* what has happened to the process so far: the ended tool calls
                   \* with their arguments and outcomes, and the edits of the repository
    review,        \* <<>> or <<what the most recent review_pr call returned or raised>>
    budget,        \* how many more tool calls and edits the run makes
    rd,            \* the bounded reader on its own: bytes, cap and, once read, the result
    calls,         \* overlapping init_repo_context calls: position, locals and inputs of each
    proc           \* the process: _REPO_ROOT_OVERRIDE, os.environ, what git answers, the cwd

vars == <<fs, workflows_dir, cache, log, review, budget, rd, calls, proc>>

---------------------------------------------------------------------------
(* Program constants. *)

MAX_DIFF_CHARS == 120000
MAX_FILE_BYTES == 60000
MAX_DEPENDENCIES == 200
MAX_SCRIPTS == 50
MAX_WORKFLOWS == 25
MAX_GRADLE_PLUGINS == 25
MAX_COMPOSE_SERVICES == 25

---------------------------------------------------------------------------
(* Python's str, bytes and list primitives. *)

Min(a, b) == IF a < b THEN a ELSE b
Max(a, b) == IF a > b THEN a ELSE b

None == <<>>
Some(v) == <<v>>

\* s[i] of a str or bytes value
At(s, i) == SubSeq(s, i, i)
\* s[i..j], cut to the characters s has
Mid(s, i, j) == SubSeq(s, Max(i, 1), Min(j, Len(s)))

\* x[:n] with Python's meaning of a negative n (all but the last -n elements)
PySlice(x, n) ==
    IF n >= 0 THEN SubSeq(x, 1, Min(n, Len(x)))
    ELSE SubSeq(x, 1, Max(0, Len(x) + n))

ASCII_UPPER == "ABCDEFGHIJKLMNOPQRSTUVWXYZ"
ASCII_LOWER == "abcdefghijklmnopqrstuvwxyz"
\* the printable characters of the model's texts in code point order
ASCII_ORDER == "\t\n !\"#$%&'()*+,-./0123456789:;<=>?@ABCDEFGHIJKLMNOPQRSTUVWXYZ[\\]^_abcdefghijklmnopqrstuvwxyz{|}~"

IndexIn(c, table) == CHOOSE i \in 1..Len(table) : At(table, i) = c
InStr(c, table) == \E i \in 1..Len(table) : At(table, i) = c
Ord(c) == IndexIn(c, ASCII_ORDER)

IsSpace(c) == c = " " \/ c = "\t" \/ c = "\n"
IsAlnum(c) == InStr(c, ASCII_UPPER) \/ InStr(c, ASCII_LOWER) \/ InStr(c, "0123456789")

LowerChar(c) == IF InStr(c, ASCII_UPPER) THEN At(ASCII_LOWER, IndexIn(c, ASCII_UPPER)) ELSE c

\* str.lower(), by halves so that the depth of the evaluation stays logarithmic
RECURSIVE Lower(_)
Lower(s) ==
    IF Len(s) = 0 THEN s
    ELSE IF Len(s) = 1 THEN LowerChar(s)
    ELSE LET m == Len(s) \div 2
         IN Lower(SubSeq(s, 1, m)) \o Lower(SubSeq(s, m + 1, Len(s)))

StartsWith(s, p) == Len(s) >= Len(p) /\ SubSeq(s, 1, Len(p)) = p
EndsWith(s, p) == Len(s) >= Len(p) /\ SubSeq(s, Len(s) - Len(p) + 1, Len(s)) = p
Contains(s, p) == \E i \in 1..(Len(s) - Len(p) + 1) : SubSeq(s, i, i + Len(p) - 1) = p

\* [F(x) for x in q]
Map(F(_), q) == [i \in 1..Len(q) |-> F(q[i])]

\* str.strip(), str.lstrip() and str.rstrip() without arguments; keep is the
\* set of the positions of s whose characters stay
NonSpace(s) == {i \in 1..Len(s) : ~IsSpace(At(s, i))}
FirstOf(S) == CHOOSE i \in S : \A j \in S : i <= j
LastOf(S) == CHOOSE i \in S : \A j \in S : j <= i
Span(s, keep) == IF keep = {} THEN SubSeq(s, 1, 0) ELSE SubSeq(s, FirstOf(keep), LastOf(keep))
SpanFrom(s, keep) == IF keep = {} THEN SubSeq(s, 1, 0) ELSE SubSeq(s, FirstOf(keep), Len(s))
SpanTo(s, keep) == IF keep = {} THEN SubSeq(s, 1, 0) ELSE SubSeq(s, 1, LastOf(keep))
Strip(s) == Span(s, NonSpace(s))
LStrip(s) == SpanFrom(s, NonSpace(s))
RStrip(s) == SpanTo(s, NonSpace(s))

\* str.strip(chars) for a single character
StripChar(s, c) == Span(s, {i \in 1..Len(s) : At(s, i) # c})

\* the position of the first character of s at or after i that satisfies Test, or Len(s) + 1
FirstFrom(s, i, Test(_)) ==
    CHOOSE j \in i..(Len(s) + 1) :
        /\ (j = Len(s) + 1 \/ Test(At(s, j)))
        /\ \A k \in i..(j - 1) : ~Test(At(s, k))

IsNewline(c) == c = "\n"

\* the values of the slots that hold one, in order; a slot is <<>> or <<value>>
Just(slots) ==
    LET Present(slot) == slot # <<>>
        Value(slot) == slot[1]
    IN Map(Value, SelectSeq(slots, Present))

\* str.splitlines(): the lines between the line breaks, without them; a final line
\* break opens no further line
SplitLines(s) ==
    LET IsStart(i) == i = 1 \/ At(s, i - 1) = "\n"
        LineAt(i) == SubSeq(s, i, FirstFrom(s, i, IsNewline) - 1)
    IN Just([i \in 1..Len(s) |-> IF IsStart(i) THEN <<LineAt(i)>> ELSE <<>>])

\* the elements of a finite set of strings as a sorted list: sorted(set)
StrLess(a, b) ==
    \E i \in 1..(Min(Len(a), Len(b)) + 1) :
        /\ SubSeq(a, 1, i - 1) = SubSeq(b, 1, i - 1)
        /\ \/ (i = Len(a) + 1 /\ i <= Len(b))
           \/ (i <= Len(a) /\ i <= Len(b) /\ At(a, i) # At(b, i) /\ Ord(At(a, i)) < Ord(At(b, i)))

Sorted(S) ==
    [k \in 1..Cardinality(S) |->
        CHOOSE x \in S : Cardinality({y \in S : StrLess(y, x)}) = k - 1]

SeqToSet(q) == {q[i] : i \in 1..Len(q)}

---------------------------------------------------------------------------
(* Bytes above 0x7F and the code points a decoding yields. *)

BYTE_LEAD == "%"    \* 0xC3, the first byte of a two-byte UTF-8 sequence
BYTE_CONT == "|"    \* 0xA9, a continuation byte
BYTE_BAD == "?"     \* 0xFF, a byte that is valid nowhere in UTF-8
CHAR_E == "&"       \* U+00E9, what 0xC3 0xA9 decodes to
CHAR_REPL == "$"    \* U+FFFD, the replacement character

IsAsciiByte(c) == c # BYTE_LEAD /\ c # BYTE_CONT /\ c # BYTE_BAD

\* bytes.decode("utf-8", errors="replace") of data[lo..hi], where lo starts a
\* sequence: a lead byte with its continuation is one code point, every other
\* byte above 0x7F one replacement character.  By halves, never cutting a pair.
RECURSIVE DecodeRange(_, _, _)
DecodeRange(data, lo, hi) ==
    IF lo > hi THEN SubSeq(data, 1, 0)
    ELSE IF lo = hi THEN (IF IsAsciiByte(At(data, lo)) THEN At(data, lo) ELSE CHAR_REPL)
    ELSE IF hi = lo + 1 /\ At(data, lo) = BYTE_LEAD /\ At(data, hi) = BYTE_CONT THEN CHAR_E
    ELSE LET m == (lo + hi) \div 2
             cut == IF At(data, m) = BYTE_LEAD /\ At(data, m + 1) = BYTE_CONT
                    THEN (IF m + 1 < hi THEN m + 1 ELSE m - 1)
                    ELSE m
         IN DecodeRange(data, lo, cut) \o DecodeRange(data, cut + 1, hi)

HasHighByte(data) == \E i \in 1..Len(data) : ~IsAsciiByte(At(data, i))

Utf8DecodeReplace(data) == IF HasHighByte(data) THEN DecodeRange(data, 1, Len(data)) ELSE data

\* bytes.decode("utf-8") with the default strict error handling raises on any
\* byte that is not part of a valid sequence
Utf8StrictFails(data) ==
    \E i \in 1..Len(data) :
        \/ At(data, i) = BYTE_BAD
        \/ (At(data, i) = BYTE_LEAD /\ (i = Len(data) \/ At(data, i + 1) # BYTE_CONT))
        \/ (At(data, i) = BYTE_CONT /\ (i = 1 \/ At(data, i - 1) # BYTE_LEAD))

---------------------------------------------------------------------------
(* The bounded reader and the format parsers. *)

\* _read_text with `>=` for `>` in its test
read_text_inclusive(data, max_bytes) ==
    LET truncated == Len(data) >= max_bytes
        kept == IF truncated THEN PySlice(data, max_bytes) ELSE data
    IN [text |-> Utf8DecodeReplace(kept), truncated |-> truncated]

\* _read_text on the bytes of a readable file
read_text(data, max_bytes) ==
    LET truncated == Len(data) > max_bytes
        kept == IF truncated THEN PySlice(data, max_bytes) ELSE data
    IN [text |-> Utf8DecodeReplace(kept), truncated |-> truncated]


(***************************************************************************)
(* Values of JSON and TOML documents, all of one shape so that any two can *)
(* be compared: ty names the Python type, s holds a str, n an int or a     *)
(* bool (0, 1), items the elements of a list or the [k, v] entries of a    *)
(* dict.                                                                   *)
(***************************************************************************)
JNull == [ty |-> "null", s |-> "", n |-> 0, items |-> <<>>]
JStr(x) == [ty |-> "str", s |-> x, n |-> 0, items |-> <<>>]
JNum(x) == [ty |-> "int", s |-> "", n |-> x, items |-> <<>>]
JBool(b) == [ty |-> "bool", s |-> "", n |-> IF b THEN 1 ELSE 0, items |-> <<>>]
JList(xs) == [ty |-> "list", s |-> "", n |-> 0, items |-> xs]
JDict(es) == [ty |-> "dict", s |-> "", n |-> 0, items |-> es]
Entry(key, val) == [k |-> key, v |-> val]

IsDict(v) == v.ty = "dict"
IsList(v) == v.ty = "list"
IsStr(v) == v.ty = "str"

\* bool(v): what `v or default` and `if v:` test
Truthy(v) ==
    CASE v.ty = "null" -> FALSE
      [] v.ty = "str" -> Len(v.s) > 0
      [] v.ty = "int" -> v.n # 0
      [] v.ty = "bool" -> v.n = 1
      [] OTHER -> Len(v.items) > 0

DIGITS == "0123456789"
RECURSIVE NumStr(_)
NumStr(n) == IF n < 10 THEN At(DIGITS, n + 1) ELSE NumStr(n \div 10) \o At(DIGITS, (n % 10) + 1)

\* str(v) of a document value; the text of a list or dict is not spelled out
PyStr(v) ==
    CASE v.ty = "str" -> v.s
      [] v.ty = "int" -> NumStr(v.n)
      [] v.ty = "bool" -> (IF v.n = 1 THEN "True" ELSE "False")
      [] v.ty = "null" -> "None"
      [] v.ty = "list" -> "[...]"
      [] v.ty = "dict" -> "{...}"

\* dict operations on entry lists
KeyOf(e) == e.k
Keys(es) == Map(KeyOf, es)
Has(es, key) == \E i \in 1..Len(es) : es[i].k = key
Lookup(es, key) == es[CHOOSE i \in 1..Len(es) : es[i].k = key].v
\* d[key] = val
Put(es, key, val) ==
    IF Has(es, key)
    THEN [i \in 1..Len(es) |-> IF es[i].k = key THEN Entry(key, val) ELSE es[i]]
    ELSE Append(es, Entry(key, val))
\* d.update(other), other's keys unique
Update(es, other) ==
    LET IsNew(e) == ~Has(es, e.k)
    IN [i \in 1..Len(es) |-> IF Has(other, es[i].k) THEN Entry(es[i].k, Lookup(other, es[i].k)) ELSE es[i]]
       \o SelectSeq(other, IsNew)
\* d.setdefault(key, val)
SetDefault(es, key, val) == IF Has(es, key) THEN es ELSE Append(es, Entry(key, val))

\* d.get(key) of a document value that is a dict: <<>> for None
Get(d, key) == IF Has(d.items, key) THEN Some(Lookup(d.items, key)) ELSE None
\* `d.get(key) or {}` and `d.get(key) or []`
GetOr(d, key, default) ==
    IF Has(d.items, key) /\ Truthy(Lookup(d.items, key)) THEN Lookup(d.items, key) ELSE default

\* {k: str(v) for k, v in d.items()}
StrValue(e) == Entry(e.k, PyStr(e.v))
StrValues(es) == Map(StrValue, es)
\* [str(d) for d in xs]
StrItems(xs) == Map(PyStr, xs)

\* the concatenation of the lists qs[lo..hi], by halves
RECURSIVE FlattenRange(_, _, _)
FlattenRange(qs, lo, hi) ==
    IF lo > hi THEN <<>>
    ELSE IF lo = hi THEN qs[lo]
    ELSE FlattenRange(qs, lo, (lo + hi) \div 2) \o FlattenRange(qs, ((lo + hi) \div 2) + 1, hi)

Flatten(qs) == FlattenRange(qs, 1, Len(qs))

---------------------------------------------------------------------------
(* JSON and TOML documents.  A document's text is a string in which "{"    *)
(* and "}" are the braces of a JSON object and every other character       *)
(* stands for the bytes of one member (JSON) or one top-level table        *)
(* (TOML), named by the tables below.                                      *)

\* how many entries past a cap the oversized sample collections hold
OverCap == 1

Numbered(prefix, n, val) == [i \in 1..n |-> Entry(prefix \o NumStr(i), val)]

JSON_MEMBERS == <<
    [sym |-> "d", k |-> "dependencies",
     v |-> JDict(<<Entry("React", JStr("18.2.0")), Entry("express", JStr("4.18.2"))>>)],
    [sym |-> "D", k |-> "dependencies",
     v |-> JDict(Numbered("pkg", MAX_DEPENDENCIES + OverCap, JStr("1.0.0")))],
    [sym |-> "F", k |-> "dependencies",
     v |-> JDict(Numbered("pkg", MAX_DEPENDENCIES, JStr("1.0.0")))],
    [sym |-> "v", k |-> "devDependencies",
     v |-> JDict(<<Entry("eslint", JStr("8.0.0")), Entry("jest", JNum(29))>>)],
    [sym |-> "p", k |-> "peerDependencies", v |-> JDict(<<Entry("react", JStr(">=17"))>>)],
    [sym |-> "s", k |-> "scripts",
     v |-> JDict(<<Entry("build", JStr("tsc")), Entry("test", JStr("jest"))>>)],
    [sym |-> "S", k |-> "scripts",
     v |-> JDict(Numbered("task", MAX_SCRIPTS + OverCap, JStr("run")))],
    [sym |-> "g", k |-> "engines",
     v |-> JDict(<<Entry("node", JStr(">=18")), Entry("npm", JNum(9))>>)],
    [sym |-> "m", k |-> "packageManager", v |-> JStr("pnpm@8.6.0")],
    [sym |-> "e", k |-> "eslintConfig",
     v |-> JDict(<<Entry("extends", JStr("eslint:recommended")),
                   Entry("rules", JDict(<<Entry("no-var", JStr("error"))>>)),
                   Entry("env", JDict(<<Entry("node", JBool(TRUE))>>))>>)],
    [sym |-> "E", k |-> "eslintConfig",
     v |-> JDict(<<Entry("rules", JDict(Numbered("rule", MAX_DEPENDENCIES + OverCap, JStr("warn"))))>>)],
    [sym |-> "q", k |-> "prettier",
     v |-> JDict(<<Entry("semi", JBool(FALSE)), Entry("printWidth", JNum(100)),
                   Entry("overrides", JList(<<>>))>>)],
    [sym |-> "y", k |-> "stylelint",
     v |-> JDict(<<Entry("extends", JList(<<JStr("stylelint-config-standard")>>)),
                   Entry("rules", JDict(<<Entry("indentation", JNum(2))>>))>>)],
    [sym |-> "r", k |-> "require",
     v |-> JDict(<<Entry("php", JStr(">=8.1")), Entry("Laravel/Framework", JStr("10.0"))>>)],
    [sym |-> "R", k |-> "require",
     v |-> JDict(Numbered("vendor/pkg", MAX_DEPENDENCIES + OverCap, JStr("1.0")))],
    [sym |-> "c", k |-> "compilerOptions",
     v |-> JDict(<<Entry("strict", JBool(TRUE)), Entry("target", JStr("ES2022")),
                   Entry("outDir", JStr("dist"))>>)],
    [sym |-> "x", k |-> "extends", v |-> JStr("./tsconfig.base.json")],
    [sym |-> "i", k |-> "include", v |-> JList(<<JStr("src")>>)],
    [sym |-> "j", k |-> "projects", v |-> JDict(<<Entry("app", JDict(<<>>))>>)],
    [sym |-> "k", k |-> "defaultProject", v |-> JStr("app")],
    [sym |-> "u", k |-> "rules", v |-> JDict(<<Entry("semi", JStr("error"))>>)],
    [sym |-> "U", k |-> "rules",
     v |-> JDict(Numbered("rule", MAX_DEPENDENCIES + OverCap, JStr("warn")))],
    [sym |-> "n", k |-> "plugins", v |-> JList(<<JStr("import")>>)],
    [sym |-> "t", k |-> "tabWidth", v |-> JNum(4)],
    [sym |-> "o", k |-> "overrides", v |-> JList(<<>>)],
    [sym |-> "b", k |-> "presets", v |-> JList(<<JStr("@babel/preset-env")>>)],
    [sym |-> "w", k |-> "jsc", v |-> JDict(<<Entry("target", JStr("es2020"))>>)],
    [sym |-> "z", k |-> "name", v |-> JStr("demo")] >>

TOML_TABLES == <<
    [sym |-> "p", k |-> "project",
     v |-> JDict(<<Entry("name", JStr("demo")),
                   Entry("dependencies", JList(<<JStr("Django>=4.2"), JStr("requests")>>)),
                   Entry("optional-dependencies",
                         JDict(<<Entry("dev", JList(<<JStr("pytest>=7")>>)),
                                 Entry("docs", JList(<<JStr("sphinx")>>))>>))>>)],
    [sym |-> "j", k |-> "project",
     v |-> JDict(<<Entry("dependencies", JList(<<JStr("flask"), JStr("Django>=4.2")>>)),
                   Entry("optional-dependencies", JDict(<<Entry("test", JList(<<JStr("pytest")>>))>>))>>)],
    [sym |-> "P", k |-> "project",
     v |-> JDict(<<Entry("dependencies",
                         JList([i \in 1..(MAX_DEPENDENCIES + OverCap) |-> JStr("pkg" \o NumStr(i))]))>>)],
    [sym |-> "O", k |-> "project",
     v |-> JDict(<<Entry("optional-dependencies",
                         JDict(<<Entry("all", JList([i \in 1..(MAX_DEPENDENCIES + OverCap) |->
                                                        JStr("opt" \o NumStr(i))]))>>))>>)],
    [sym |-> "t", k |-> "tool",
     v |-> JDict(<<Entry("poetry",
                         JDict(<<Entry("dependencies", JDict(<<Entry("python", JStr("^3.11")),
                                                               Entry("FastAPI", JStr("0.110"))>>)),
                                 Entry("group", JDict(<<Entry("dev", JDict(<<Entry("dependencies",
                                       JDict(<<Entry("pytest", JStr("8.0")), Entry("ruff", JStr("0.4"))>>))>>))>>))>>)),
                   Entry("ruff", JDict(<<Entry("line-length", JNum(100)), Entry("fix", JBool(TRUE))>>)),
                   Entry("mypy", JDict(<<Entry("strict", JBool(TRUE))>>))>>)],
    [sym |-> "T", k |-> "tool",
     v |-> JDict(<<Entry("poetry",
                         JDict(<<Entry("dependencies",
                                       JDict(Numbered("pkg", MAX_DEPENDENCIES + OverCap, JStr("1"))))>>))>>)],
    [sym |-> "b", k |-> "tool",
     v |-> JDict(<<Entry("black", JDict(<<Entry("line-length", JNum(88))>>)),
                   Entry("pytest", JDict(<<Entry("ini_options",
                                                 JDict(<<Entry("addopts", JStr("-q")),
                                                         Entry("minversion", JStr("7"))>>))>>))>>)],
    [sym |-> "m", k |-> "tool",
     v |-> JDict(<<Entry("black", JDict(<<Entry("line-length", JNum(88)), Entry("preview", JBool(TRUE))>>)),
                   Entry("mypy", JDict(<<Entry("strict", JBool(TRUE)),
                                         Entry("plugins", JList(<<JStr("pydantic.mypy")>>))>>))>>)],
    [sym |-> "k", k |-> "package",
     v |-> JDict(<<Entry("name", JStr("demo")), Entry("version", JStr("0.1.0"))>>)],
    [sym |-> "d", k |-> "dependencies",
     v |-> JDict(<<Entry("actix-web", JStr("4")), Entry("serde", JStr("1"))>>)],
    [sym |-> "D", k |-> "dependencies",
     v |-> JDict(Numbered("crate", MAX_DEPENDENCIES + OverCap, JStr("1")))],
    [sym |-> "l", k |-> "lint",
     v |-> JDict(<<Entry("select", JList(<<JStr("E"), JStr("F")>>)), Entry("fixable", JList(<<>>))>>)],
    [sym |-> "f", k |-> "format", v |-> JDict(<<Entry("quote-style", JStr("double"))>>)] >>

Symbols(table) == {table[i].sym : i \in 1..Len(table)}
MemberOf(e) == Entry(e.k, e.v)
SymbolEntry(table, c) == MemberOf(table[CHOOSE i \in 1..Len(table) : table[i].sym = c])

\* the members a document's characters stand for, a repeated key keeping its
\* first place and its last value
Merged(ms) ==
    LET IsFirst(i) == \A j \in 1..(i - 1) : ms[j].k # ms[i].k
        LastVal(key) == ms[LastOf({j \in 1..Len(ms) : ms[j].k = key})].v
    IN Just([i \in 1..Len(ms) |-> IF IsFirst(i) THEN <<Entry(ms[i].k, LastVal(ms[i].k))>> ELSE <<>>])

Members(table, body) == Merged([i \in 1..Len(body) |-> SymbolEntry(table, At(body, i))])

\* sys.getrecursionlimit() of CPython: the scanner of json.loads enters one
\* recursive call for every array it opens
RECURSION_LIMIT == 1000

\* the text opens more arrays, one in the other, than the interpreter lets it
TooDeep(text) ==
    /\ Len(text) > RECURSION_LIMIT
    /\ \A i \in 1..(RECURSION_LIMIT + 1) : At(text, i) = "["

\* json.loads: [data |-> <<value>>, error |-> "", raised |-> ""]; for a
\* JSONDecodeError [data |-> <<>>, error |-> its message, raised |-> ""]; and the
\* name of the exception in raised when it is no JSONDecodeError.  "[]" is a
\* document that is no object.
json_loads(text) ==
    IF TooDeep(text) THEN [data |-> None, error |-> "", raised |-> "RecursionError"]
    ELSE IF text = "[]" THEN [data |-> Some(JList(<<>>)), error |-> "", raised |-> ""]
    ELSE IF /\ Len(text) >= 2
            /\ At(text, 1) = "{"
            /\ At(text, Len(text)) = "}"
            /\ \A i \in 2..(Len(text) - 1) : At(text, i) \in Symbols(JSON_MEMBERS)
    THEN [data |-> Some(JDict(Members(JSON_MEMBERS, SubSeq(text, 2, Len(text) - 1)))),
          error |-> "", raised |-> ""]
    ELSE [data |-> None, error |-> "JSONDecodeError", raised |-> ""]

\* tomllib.loads: a table may be declared once; the empty document is {}
toml_loads(text) ==
    IF /\ \A i \in 1..Len(text) : At(text, i) \in Symbols(TOML_TABLES)
       /\ \A i, j \in 1..Len(text) :
            i # j => SymbolEntry(TOML_TABLES, At(text, i)).k # SymbolEntry(TOML_TABLES, At(text, j)).k
    THEN [data |-> Some(JDict(Members(TOML_TABLES, text))), error |-> "", raised |-> ""]
    ELSE [data |-> None, error |-> "TOMLDecodeError", raised |-> ""]

\* _read_json and _read_toml: (data, truncated, error), or the exception that
\* the `except` clause does not name
Parsed(parsed, truncated) ==
    [data |-> parsed.data, truncated |-> truncated, error |-> parsed.error, raised |-> parsed.raised]

json_of(r) == Parsed(json_loads(r.text), r.truncated)
read_json(data, max_bytes) == json_of(read_text(data, max_bytes))

toml_of(r) == Parsed(toml_loads(r.text), r.truncated)
read_toml(data, max_bytes) == toml_of(read_text(data, max_bytes))

---------------------------------------------------------------------------
(* The extractors of line-oriented files. *)

Take(q, n) == SubSeq(q, 1, Min(n, Len(q)))
StripAll(lines) == Map(Strip, lines)
IsQuote(c) == c = "\"" \/ c = "'"

\* an extractor that keeps the option lines, which start with "-"
extract_requirements_with_options(text) ==
    LET IsDep(line) == ~(Len(line) = 0 \/ StartsWith(line, "#"))
    IN Take(SelectSeq(StripAll(SplitLines(text)), IsDep), MAX_DEPENDENCIES)

\* _extract_requirements: the loop leaves as soon as it holds MAX_DEPENDENCIES lines
extract_requirements(text) ==
    LET IsDep(line) == ~(Len(line) = 0 \/ StartsWith(line, "#")) /\ ~StartsWith(line, "-")
    IN Take(SelectSeq(StripAll(SplitLines(text)), IsDep), MAX_DEPENDENCIES)

\* re.match(r"""gem\s+["']([^"']+)["']""", line): <<>> or <<group 1>>; q is
\* the position of the first character after the white space, close that of
\* the first quote after q
GemQuoted(line, q, close) ==
    IF q <= Len(line) /\ IsQuote(At(line, q)) /\ close <= Len(line) /\ close > q + 1
    THEN Some(SubSeq(line, q + 1, close - 1))
    ELSE None

GemAfter(line, q) == GemQuoted(line, q, FirstFrom(line, q + 1, IsQuote))

GemMatch(line) ==
    IF ~(StartsWith(line, "gem") /\ Len(line) >= 4 /\ IsSpace(At(line, 4))) THEN None
    ELSE LET NotSpace(c) == ~IsSpace(c)
         IN GemAfter(line, FirstFrom(line, 4, NotSpace))

\* _extract_ruby_gems: the loop leaves as soon as it holds MAX_DEPENDENCIES gems
extract_ruby_gems(text) ==
    LET GemOf(line) == IF Len(line) = 0 \/ StartsWith(line, "#") THEN None ELSE GemMatch(line)
    IN Take(Just(Map(GemOf, StripAll(SplitLines(text)))), MAX_DEPENDENCIES)

\* _extract_ruby_version: <<>> for None
RubyVersionAt(line) == Some(StripChar(StripChar(Strip(SubSeq(line, 6, Len(line))), "\""), "'"))

ruby_version_in(lines, hits) == IF hits = {} THEN None ELSE RubyVersionAt(lines[FirstOf(hits)])

ruby_version_of(lines) == ruby_version_in(lines, {i \in 1..Len(lines) : StartsWith(lines[i], "ruby ")})

extract_ruby_version(text) == ruby_version_of(StripAll(SplitLines(text)))

\* str.split(): the maximal runs of characters that are not white space
Split(line) ==
    LET IsStart(i) == ~IsSpace(At(line, i)) /\ (i = 1 \/ IsSpace(At(line, i - 1)))
        WordAt(i) == SubSeq(line, i, FirstFrom(line, i, IsSpace) - 1)
    IN Just([i \in 1..Len(line) |-> IF IsStart(i) THEN <<WordAt(i)>> ELSE <<>>])

\* _extract_tool_versions: a later line of the same tool replaces the earlier value
tool_version_of(versions, line, parts) ==
    IF Len(line) = 0 \/ StartsWith(line, "#") \/ Len(parts) < 2 THEN versions
    ELSE Put(versions, parts[1], parts[2])

tool_version_line(versions, line) == tool_version_of(versions, line, Split(line))

RECURSIVE tool_versions_from(_, _, _)
tool_versions_from(lines, i, versions) ==
    IF i > Len(lines) THEN versions
    ELSE tool_versions_from(lines, i + 1, tool_version_line(versions, Strip(lines[i])))

extract_tool_versions(text) == tool_versions_from(SplitLines(text), 1, <<>>)

\* re.finditer(r"""id\(["']([^"']+)["']\)""", text) from position i on: the
\* first match at or after i as [from, to, group], to = 0 when there is none
GradleMatchAt(text, i) ==
    LET close == FirstFrom(text, i + 4, IsQuote)
    IN /\ Mid(text, i, i + 2) = "id("
       /\ i + 3 <= Len(text) /\ IsQuote(At(text, i + 3))
       /\ close > i + 4 /\ close + 1 <= Len(text)
       /\ At(text, close + 1) = ")"

GradleGroup(text, j, close) == [from |-> j, to |-> close + 1, group |-> SubSeq(text, j + 4, close - 1)]

GradleFirst(text, starts) ==
    IF starts = {} THEN [from |-> 0, to |-> 0, group |-> ""]
    ELSE GradleGroup(text, FirstOf(starts), FirstFrom(text, FirstOf(starts) + 4, IsQuote))

GradleNext(text, i) == GradleFirst(text, {j \in i..Len(text) : GradleMatchAt(text, j)})

\* _extract_gradle_plugins: the loop over the matches from position i on, m
\* the next match
RECURSIVE gradle_plugins_from(_, _, _)
gradle_plugins_with(text, plugins, m) ==
    IF m.to = 0 THEN plugins
    ELSE IF Len(plugins) + 1 >= MAX_GRADLE_PLUGINS THEN Append(plugins, m.group)
    ELSE gradle_plugins_from(text, m.to + 1, Append(plugins, m.group))

gradle_plugins_from(text, i, plugins) == gradle_plugins_with(text, plugins, GradleNext(text, i))

extract_gradle_plugins(text) == gradle_plugins_from(text, 1, <<>>)

\* re.match(r"\s{2}([a-zA-Z0-9_-]+):", raw): <<>> or <<group 1>>; stop is the
\* position of the first character from the third on that no name holds
IsServiceChar(c) == IsAlnum(c) \/ c = "_" \/ c = "-"
ServiceUpTo(raw, stop) ==
    IF Len(raw) >= 4 /\ IsSpace(At(raw, 1)) /\ IsSpace(At(raw, 2))
       /\ stop > 3 /\ stop <= Len(raw) /\ At(raw, stop) = ":"
    THEN Some(SubSeq(raw, 3, stop - 1))
    ELSE None

ServiceMatch(raw) ==
    LET NotService(c) == ~IsServiceChar(c)
    IN ServiceUpTo(raw, FirstFrom(raw, 3, NotService))

\* _extract_docker_compose_services: the loop from the i-th line on
RECURSIVE compose_services_from(_, _, _, _)
compose_services_found(lines, i, in_services, found) ==
    IF Len(found) >= MAX_COMPOSE_SERVICES THEN found
    ELSE compose_services_from(lines, i + 1, in_services, found)

\* a scan that an unindented line does not end
compose_services_line_unending(lines, i, in_services, services, raw) ==
    IF StartsWith(raw, "services:") THEN compose_services_from(lines, i + 1, TRUE, services)
    ELSE compose_services_found(lines, i, in_services,
             IF in_services THEN services \o ServiceMatch(raw) ELSE services)

\* a scan that ends at the first line that the pattern does not match
compose_services_line_strict(lines, i, in_services, services, raw) ==
    IF StartsWith(raw, "services:") THEN compose_services_from(lines, i + 1, TRUE, services)
    ELSE IF in_services /\ Len(raw) > 0 /\ ServiceMatch(raw) = <<>> THEN services
    ELSE compose_services_found(lines, i, in_services,
             IF in_services THEN services \o ServiceMatch(raw) ELSE services)

compose_services_line(lines, i, in_services, services, raw) ==
    IF StartsWith(raw, "services:") THEN compose_services_from(lines, i + 1, TRUE, services)
    ELSE IF in_services /\ ~(Len(raw) = 0 \/ StartsWith(raw, " ")) THEN services
    ELSE compose_services_found(lines, i, in_services,
             IF in_services THEN services \o ServiceMatch(raw) ELSE services)

compose_services_from(lines, i, in_services, services) ==
    IF i > Len(lines) THEN services
    ELSE compose_services_line(lines, i, in_services, services, RStrip(lines[i]))

extract_docker_compose_services(text) == compose_services_from(SplitLines(text), 1, FALSE, <<>>)

\* re.search(rf"<{key}>([^<]+)</{key}>", text): <<>> or <<group 1>>
PomGroup(text, from) ==
    LET IsLt(c) == c = "<"
    IN Some(SubSeq(text, from, FirstFrom(text, from, IsLt) - 1))

PomFirst(text, open, hits) == IF hits = {} THEN None ELSE PomGroup(text, FirstOf(hits) + Len(open))

PomBetween(text, open, shut) ==
    LET IsLt(c) == c = "<"
        Shut(i, stop) == stop > i + Len(open) /\ Mid(text, stop, stop + Len(shut) - 1) = shut
        Hit(i) == /\ Mid(text, i, i + Len(open) - 1) = open
                  /\ Shut(i, FirstFrom(text, i + Len(open), IsLt))
    IN PomFirst(text, open, {i \in 1..Len(text) : Hit(i)})

PomSearch(text, key) == PomBetween(text, "<" \o key \o ">", "</" \o key \o ">")

\* _extract_pom_info
extract_pom_info(text) ==
    LET Found(key) == IF PomSearch(text, key) = None THEN None
                      ELSE Some(Entry(key, PomSearch(text, key)[1]))
    IN Just(Map(Found, <<"groupId", "artifactId", "version">>))

\* re.search(r"^<word>\\s+(.+)$", text, re.MULTILINE): in the raw string the
\* pattern \\s is a literal backslash followed by the letter s, so a line matches
\* when it is <word>, a backslash, one or more "s", and at least one more character
GoGroup(line, prefix) ==
    LET NotS(c) == c # "s"
    IN \* s+ is greedy but gives back so that (.+) keeps one character
       Some(Strip(SubSeq(line, Min(FirstFrom(line, Len(prefix) + 1, NotS), Len(line)), Len(line))))

GoFirst(lines, prefix, hits) == IF hits = {} THEN None ELSE GoGroup(lines[FirstOf(hits)], prefix)

GoIn(lines, prefix) ==
    GoFirst(lines, prefix,
            {i \in 1..Len(lines) : StartsWith(lines[i], prefix) /\ Len(lines[i]) > Len(prefix)})

GoDirective(text, word) == GoIn(SplitLines(text), word \o "\\s")

---------------------------------------------------------------------------
(* The extractors of tool configuration. *)

JStrs(xs) == JList(Map(JStr, xs))
When(cond, key, val) == IF cond THEN <<Entry(key, val)>> ELSE <<>>

\* _summarize_dependencies of a dict of str values
summarize_dependencies(dep_map) ==
    LET truncated == Len(dep_map) > MAX_DEPENDENCIES
        AsMember(e) == Entry(e.k, JStr(e.v))
    IN JDict(<<Entry("dependencies",
                     JDict(Map(AsMember, IF truncated THEN Take(dep_map, MAX_DEPENDENCIES) ELSE dep_map))),
               Entry("truncated", JBool(truncated))>>)

\* _summarize_list of a list of str
summarize_list(values) ==
    LET truncated == Len(values) > MAX_DEPENDENCIES
    IN JDict(<<Entry("items", JStrs(IF truncated THEN Take(values, MAX_DEPENDENCIES) ELSE values)),
               Entry("truncated", JBool(truncated))>>)

\* _ensure_list of data.get(key): a list of str
ensure_list(value) ==
    IF value = None THEN <<>>
    ELSE IF IsList(value[1]) THEN StrItems(value[1].items)
    ELSE IF IsStr(value[1]) THEN <<value[1].s>>
    ELSE <<>>

\* _extract_rule_keys, with its default limit
extract_rule_keys(rules) ==
    IF rules # None /\ IsDict(rules[1]) THEN Take(Keys(rules[1].items), MAX_DEPENDENCIES) ELSE <<>>

\* _extract_eslint_config
eslint_config_of(extends, plugins, parser, rules) ==
    When(Len(extends) > 0, "extends", JStrs(extends))
    \o When(Len(plugins) > 0, "plugins", JStrs(plugins))
    \o (IF parser # None /\ IsStr(parser[1]) THEN <<Entry("parser", parser[1])>> ELSE <<>>)
    \o When(Len(rules) > 0, "rules", summarize_list(rules))

extract_eslint_config(data) ==
    eslint_config_of(ensure_list(Get(data, "extends")), ensure_list(Get(data, "plugins")),
                     Get(data, "parser"), extract_rule_keys(Get(data, "rules")))

\* _extract_stylelint_config
stylelint_config_of(extends, plugins, rules) ==
    When(Len(extends) > 0, "extends", JStrs(extends))
    \o When(Len(plugins) > 0, "plugins", JStrs(plugins))
    \o When(Len(rules) > 0, "rules", summarize_list(rules))

extract_stylelint_config(data) ==
    stylelint_config_of(ensure_list(Get(data, "extends")), ensure_list(Get(data, "plugins")),
                        extract_rule_keys(Get(data, "rules")))

\* every key of the dict, allow-listed or not
extract_subset_all(data, keys) == data.items

\* _extract_subset: the allow-listed keys the dict holds, in allow-list order
extract_subset(data, keys) ==
    LET InData(key) == Has(data.items, key)
        Member(key) == Entry(key, Lookup(data.items, key))
    IN Map(Member, SelectSeq(keys, InData))

PRETTIER_KEYS == <<"printWidth", "tabWidth", "useTabs", "semi", "singleQuote",
                   "trailingComma", "bracketSpacing", "arrowParens">>
\* _extract_prettier_config
extract_prettier_config(data) == extract_subset(data, PRETTIER_KEYS)

TSCONFIG_COMPILER_KEYS == <<"strict", "noImplicitAny", "strictNullChecks", "noUncheckedIndexedAccess",
                            "noImplicitReturns", "noFallthroughCasesInSwitch", "target", "module",
                            "lib", "jsx">>
\* _extract_tsconfig
extract_tsconfig(data) ==
    LET extends == Get(data, "extends")
        compiler == Get(data, "compilerOptions")
        compiler_info == IF compiler # None /\ IsDict(compiler[1])
                         THEN extract_subset(compiler[1], TSCONFIG_COMPILER_KEYS) ELSE <<>>
        include == Get(data, "include")
        exclude == Get(data, "exclude")
    IN (IF extends # None /\ IsStr(extends[1]) THEN <<Entry("extends", extends[1])>> ELSE <<>>)
       \o When(Len(compiler_info) > 0, "compilerOptions", JDict(compiler_info))
       \o (IF include # None /\ IsList(include[1])
           THEN <<Entry("include", JList(Take(include[1].items, 25)))>> ELSE <<>>)
       \o (IF exclude # None /\ IsList(exclude[1])
           THEN <<Entry("exclude", JList(Take(exclude[1].items, 25)))>> ELSE <<>>)

\* _extract_angular_config
extract_angular_config(data) ==
    LET default_project == Get(data, "defaultProject")
        projects == Get(data, "projects")
        schematics == Get(data, "schematics")
    IN (IF default_project # None /\ IsStr(default_project[1])
        THEN <<Entry("defaultProject", default_project[1])>> ELSE <<>>)
       \o (IF projects # None /\ IsDict(projects[1])
           THEN <<Entry("projects", JStrs(Take(Keys(projects[1].items), 10)))>> ELSE <<>>)
       \o (IF schematics # None /\ IsDict(schematics[1])
           THEN <<Entry("schematics", JStrs(Take(Keys(schematics[1].items), 10)))>> ELSE <<>>)

\* the position of the first "=" (or of the first of several characters) in a line, 0 if none
FindAny(line, chars) ==
    LET hits == {i \in 1..Len(line) : InStr(At(line, i), chars)}
    IN IF hits = {} THEN 0 ELSE FirstOf(hits)

EDITORCONFIG_KEYS == {"indent_style", "indent_size", "end_of_line", "charset", "trim_trailing_whitespace"}
EDITORCONFIG_SECTIONS == {"*", "*.*", "**"}

\* _extract_editorconfig; section is <<>> while no header has been read
RECURSIVE editorconfig_from(_, _, _, _)
editorconfig_from(lines, i, section, extracted) ==
    IF i > Len(lines) THEN extracted
    ELSE LET line == Strip(lines[i])
             eq == FindAny(line, "=")
         IN IF Len(line) = 0 \/ StartsWith(line, "#") \/ StartsWith(line, ";")
            THEN editorconfig_from(lines, i + 1, section, extracted)
            ELSE IF StartsWith(line, "[") /\ EndsWith(line, "]")
            THEN editorconfig_from(lines, i + 1, Some(Strip(Mid(line, 2, Len(line) - 1))), extracted)
            ELSE IF eq > 0 /\ section # None /\ section[1] \in EDITORCONFIG_SECTIONS
                    /\ Strip(Mid(line, 1, eq - 1)) \in EDITORCONFIG_KEYS
            THEN editorconfig_from(lines, i + 1, section,
                                   Put(extracted, Strip(Mid(line, 1, eq - 1)),
                                       JStr(Strip(Mid(line, eq + 1, Len(line))))))
            ELSE editorconfig_from(lines, i + 1, section, extracted)

extract_editorconfig(text) == editorconfig_from(SplitLines(text), 1, None, <<>>)

(***************************************************************************)
(* configparser.ConfigParser(interpolation=None).read_file on a file       *)
(* opened as UTF-8: sections hold option -> value, option names are lower  *)
(* cased, a repeated section or option, an option before any section and a *)
(* line without "=" or ":" are errors, and an indented line continues the  *)
(* value of the option before it.  The files of the model hold no          *)
(* [DEFAULT] section.  state.error is "" until a line is refused.          *)
(***************************************************************************)
RECURSIVE ini_from(_, _, _)
ini_from(lines, i, st) ==
    IF i > Len(lines) \/ st.error # "" THEN st
    ELSE LET raw == lines[i]
             line == Strip(raw)
             delim == FindAny(line, "=:")
             name == Lower(RStrip(Mid(line, 1, delim - 1)))
             sect == st.sections[Len(st.sections)]
         IN IF Len(line) = 0 \/ StartsWith(line, "#") \/ StartsWith(line, ";")
            THEN ini_from(lines, i + 1, st)
            ELSE IF IsSpace(At(raw, 1)) /\ st.option # ""
            THEN ini_from(lines, i + 1,
                     [st EXCEPT !.sections[Len(st.sections)].v =
                         Put(sect.v, st.option, Lookup(sect.v, st.option) \o "\n" \o line)])
            ELSE IF StartsWith(line, "[") /\ FindAny(Mid(line, 3, Len(line)), "]") > 0
            THEN LET header == Mid(line, 2, LastOf({j \in 3..Len(line) : At(line, j) = "]"}) - 1)
                 IN IF Has(st.sections, header)
                    THEN [st EXCEPT !.error = "DuplicateSectionError"]
                    ELSE ini_from(lines, i + 1,
                             [st EXCEPT !.sections = Append(st.sections, Entry(header, <<>>)),
                                        !.option = ""])
            ELSE IF Len(st.sections) = 0 THEN [st EXCEPT !.error = "MissingSectionHeaderError"]
            ELSE IF delim = 0 \/ Len(name) = 0 THEN [st EXCEPT !.error = "ParsingError"]
            ELSE IF Has(sect.v, name) THEN [st EXCEPT !.error = "DuplicateOptionError"]
            ELSE ini_from(lines, i + 1,
                     [st EXCEPT !.sections[Len(st.sections)].v =
                                    Append(sect.v, Entry(name, Strip(Mid(line, delim + 1, Len(line))))),
                                !.option = name])

\* _read_ini of an existing path: (parser, error), the parser as its sections.
\* The file is opened without a byte cap and read whole.
read_ini(file) ==
    IF file.kind = "dir" THEN [parser |-> None, error |-> "IsADirectoryError"]
    ELSE IF Utf8StrictFails(file.data) THEN [parser |-> None, error |-> "UnicodeDecodeError"]
    ELSE LET st == ini_from(SplitLines(file.data), 1, [sections |-> <<>>, option |-> "", error |-> ""])
         IN IF st.error # "" THEN [parser |-> None, error |-> st.error]
            ELSE [parser |-> Some(st.sections), error |-> ""]

---------------------------------------------------------------------------
(* The framework and tool classifier. *)

FRAMEWORK_MAP == <<
    Entry("react", "React"), Entry("next", "Next.js"), Entry("vue", "Vue"),
    Entry("nuxt", "Nuxt"), Entry("svelte", "Svelte"), Entry("@sveltejs/kit", "SvelteKit"),
    Entry("@angular/cli", "Angular"), Entry("@angular/core", "Angular"), Entry("@angular/platform-browser", "Angular"),
    Entry("qwik", "Qwik"), Entry("solid-js", "SolidJS"), Entry("lit", "Lit"),
    Entry("ember-source", "Ember"), Entry("gatsby", "Gatsby"), Entry("express", "Express"),
    Entry("fastify", "Fastify"), Entry("@nestjs/core", "NestJS"), Entry("koa", "Koa"),
    Entry("@hapi/hapi", "Hapi"), Entry("adonisjs", "AdonisJS"), Entry("@adonisjs/core", "AdonisJS"),
    Entry("@loopback/core", "LoopBack"), Entry("sails", "Sails"), Entry("@remix-run/react", "Remix"),
    Entry("astro", "Astro"), Entry("electron", "Electron"), Entry("django", "Django"),
    Entry("flask", "Flask"), Entry("fastapi", "FastAPI"), Entry("starlette", "Starlette"),
    Entry("tornado", "Tornado"), Entry("pyramid", "Pyramid"), Entry("falcon", "Falcon"),
    Entry("sanic", "Sanic"), Entry("quart", "Quart"), Entry("django-rest-framework", "Django REST Framework"),
    Entry("rails", "Ruby on Rails"), Entry("laravel/framework", "Laravel"), Entry("symfony/framework-bundle", "Symfony"),
    Entry("yiisoft/yii2", "Yii"), Entry("slim/slim", "Slim"), Entry("cakephp/cakephp", "CakePHP"),
    Entry("laminas/laminas-mvc", "Laminas"), Entry("codeigniter4/framework", "CodeIgniter"), Entry("spring-boot", "Spring Boot"),
    Entry("gin", "Gin"), Entry("github.com/gin-gonic/gin", "Gin"), Entry("echo", "Echo"),
    Entry("github.com/labstack/echo/v4", "Echo"), Entry("fiber", "Fiber"), Entry("github.com/gofiber/fiber/v2", "Fiber"),
    Entry("chi", "Chi"), Entry("github.com/go-chi/chi/v5", "Chi"), Entry("beego", "Beego"),
    Entry("github.com/beego/beego/v2", "Beego"), Entry("revel", "Revel"), Entry("github.com/revel/revel", "Revel"),
    Entry("actix-web", "Actix Web"), Entry("rocket", "Rocket") >>

TOOL_MAP == <<
    Entry("eslint", "ESLint"), Entry("prettier", "Prettier"), Entry("stylelint", "Stylelint"),
    Entry("jest", "Jest"), Entry("vitest", "Vitest"), Entry("mocha", "Mocha"),
    Entry("pytest", "pytest"), Entry("ruff", "Ruff"), Entry("black", "Black"),
    Entry("mypy", "mypy"), Entry("pylint", "pylint"), Entry("flake8", "flake8"),
    Entry("isort", "isort"), Entry("cypress", "Cypress"), Entry("playwright", "Playwright"),
    Entry("storybook", "Storybook") >>

\* _detect_items
detect_items(names, mapping) ==
    LET Known(e) == e.k \in names
        Detected(e) == [name |-> e.v, package |-> e.k]
    IN Map(Detected, SelectSeq(mapping, Known))

\* _normalize_dep_names
normalize_dep_names(deps) == {Lower(deps[i].k) : i \in 1..Len(deps)}

\* _detect_frameworks_and_tools: (frameworks, tools)
detect_frameworks_and_tools(dep_names) ==
    LET Label(item) == item.name
    IN [frameworks |-> detect_items(dep_names, FRAMEWORK_MAP),
        tools |-> Map(Label, detect_items(dep_names, TOOL_MAP))]

---------------------------------------------------------------------------
(* The repository root as init_repo_context sees it. *)

ROOT_FILES == <<
    "package.json", "pnpm-lock.yaml", "yarn.lock", "package-lock.json", "pnpm-workspace.yaml",
    "tsconfig.json", "tsconfig.base.json", "tsconfig.app.json", "tsconfig.spec.json", "angular.json",
    ".eslintrc", ".eslintrc.json", ".eslintrc.yaml", ".eslintrc.yml", ".eslintrc.js",
    ".eslintrc.cjs", ".eslintignore", ".prettierrc", ".prettierrc.json", ".prettierrc.yaml",
    ".prettierrc.yml", "prettier.config.js", "prettier.config.cjs", ".prettierignore", ".stylelintrc",
    ".stylelintrc.json", ".stylelintrc.yaml", ".stylelintrc.yml", ".stylelintignore", ".editorconfig",
    ".babelrc", "babel.config.json", ".swcrc", "jest.config.js", "vitest.config.ts",
    "vitest.config.js", "cypress.config.ts", "playwright.config.ts", "pyproject.toml", "requirements.txt",
    "requirements-dev.txt", "ruff.toml", "mypy.ini", ".pylintrc", "Pipfile",
    "Pipfile.lock", "poetry.lock", "uv.lock", "setup.cfg", "setup.py",
    "tox.ini", "pytest.ini", "go.mod", "go.sum", "Cargo.toml",
    "Cargo.lock", "pom.xml", "build.gradle", "build.gradle.kts", "settings.gradle",
    "settings.gradle.kts", "composer.json", "composer.lock", "Gemfile", "Gemfile.lock",
    ".nvmrc", ".node-version", ".python-version", ".ruby-version", ".tool-versions",
    "Dockerfile", "docker-compose.yml", "docker-compose.yaml", "Makefile", ".gitlab-ci.yml",
    "azure-pipelines.yml", ".circleci/config.yml" >>

RootFileSet == SeqToSet(ROOT_FILES)

Absent == [kind |-> "absent", data |-> ""]
Directory == [kind |-> "dir", data |-> ""]
FileOf(bytes) == [kind |-> "file", data |-> bytes]

\* (root / name).exists()
Exists(files, name) == files[name].kind # "absent"
\* Path.read_bytes raises (IsADirectoryError) on an entry that is no readable file
Unreadable(files, name) == files[name].kind = "dir"

\* _scan_root_files
scan_root_files(files, names) ==
    LET Present(name) == Exists(files, name)
    IN SelectSeq(names, Present)

\* _scan_workflows, for one order in which iterdir yields the directory's entries
scan_workflows(entries) ==
    LET IsWorkflow(name) == \/ EndsWith(name, ".yml") /\ Len(name) > 4
                            \/ EndsWith(name, ".yaml") /\ Len(name) > 5
    IN Take(SelectSeq(entries, IsWorkflow), MAX_WORKFLOWS)

(***************************************************************************)
(* The locals of one init_repo_context call.  raised is "" while the call  *)
(* runs and names the exception once one has left the function.  extra     *)
(* holds the keys the code adds to context beside the fixed ones.          *)
(***************************************************************************)
NewCall(root) ==
    [root |-> root, raised |-> "",
     detected_files |-> <<>>, truncated_files |-> <<>>, parse_errors |-> <<>>,
     languages |-> {}, frameworks |-> <<>>, tools |-> {}, package_managers |-> {},
     lockfiles |-> {}, build_systems |-> {}, runtime_versions |-> <<>>,
     dependencies |-> <<>>, container |-> <<>>, config_signals |-> <<>>,
     scripts |-> <<>>, ci_cd |-> <<>>, extra |-> <<>>]

Raise(acc, exc) == [acc EXCEPT !.raised = exc]
Running(acc) == acc.raised = ""

NoteRead(acc, name, truncated, error) ==
    [acc EXCEPT !.truncated_files = IF truncated THEN Append(@, name) ELSE @,
                !.parse_errors = IF error # "" THEN Put(@, name, error) ELSE @]

\* frameworks.extend(found_frameworks); tools.update(found_tools)
Classify(acc, dep_names) ==
    LET found == detect_frameworks_and_tools(dep_names)
    IN [acc EXCEPT !.frameworks = @ \o found.frameworks,
                   !.tools = @ \cup SeqToSet(found.tools)]

\* data, truncated, error = _read_json(root / name, max_bytes) and the two
\* `if` that follow it: the locals after them, and data (<<>> for None)
LoadedData(acc, name, r) ==
    IF r.raised # "" THEN [acc |-> Raise(acc, r.raised), data |-> None]
    ELSE [acc |-> NoteRead(acc, name, r.truncated, r.error), data |-> r.data]

LoadJson(acc, files, name, max_bytes) ==
    IF Unreadable(files, name) THEN [acc |-> Raise(acc, "IsADirectoryError"), data |-> None]
    ELSE LoadedData(acc, name, read_json(files[name].data, max_bytes))

LoadToml(acc, files, name, max_bytes) ==
    IF Unreadable(files, name) THEN [acc |-> Raise(acc, "IsADirectoryError"), data |-> None]
    ELSE LoadedData(acc, name, read_toml(files[name].data, max_bytes))

\* text, truncated = _read_text(root / name, max_bytes) and the `if` after it
LoadedText(acc, name, r) == [acc |-> NoteRead(acc, name, r.truncated, ""), text |-> r.text]

LoadText(acc, files, name, max_bytes) ==
    IF Unreadable(files, name) THEN [acc |-> Raise(acc, "IsADirectoryError"), text |-> ""]
    ELSE LoadedText(acc, name, read_text(files[name].data, max_bytes))

GotDict(loaded) == Running(loaded.acc) /\ loaded.data # None /\ IsDict(loaded.data[1])

---------------------------------------------------------------------------
(* init_repo_context, one operator per block of the function.  Each takes  *)
(* the call's locals and what the call reads (env.files, the root;          *)
(* env.entries, <<>> or <<the workflows directory as iterdir yields it>>;   *)
(* env.max_bytes) and gives the locals after the block.                     *)

EmptyDict == JDict(<<>>)
DictItemsOf(v) == IF IsDict(v) THEN v.items ELSE <<>>
StrEntries(es) ==
    LET IsStrValue(e) == IsStr(e.v)
        AsStr(e) == Entry(e.k, e.v.s)
    IN Map(AsStr, SelectSeq(es, IsStrValue))

\* lines 675-775
block_scan(acc, env) ==
    [acc EXCEPT !.detected_files = @ \o scan_root_files(env.files, ROOT_FILES)]

\* lines 795-832, data a dict
package_json_signals(acc, data) ==
    LET package_manager == Get(data, "packageManager")
        deps == GetOr(data, "dependencies", EmptyDict)
        dev_deps == GetOr(data, "devDependencies", EmptyDict)
        peer_deps == GetOr(data, "peerDependencies", EmptyDict)
        all_deps == Update(Update(Update(<<>>, StrValues(DictItemsOf(deps))),
                                  StrValues(DictItemsOf(dev_deps))),
                           StrValues(DictItemsOf(peer_deps)))
        engines == Get(data, "engines")
        pkg_scripts == Get(data, "scripts")
        eslint_config == Get(data, "eslintConfig")
        prettier_config == Get(data, "prettier")
        stylelint_config == Get(data, "stylelint")
        a1 == [acc EXCEPT !.languages = @ \cup {"JavaScript/TypeScript"},
                          !.package_managers = @ \cup {"npm"},
                          !.extra = IF package_manager # None /\ IsStr(package_manager[1])
                                    THEN Put(@, "package_manager", package_manager[1]) ELSE @]
        a2 == [Classify(a1, normalize_dep_names(all_deps))
                  EXCEPT !.dependencies = Put(@, "package.json", summarize_dependencies(all_deps))]
        a3 == [a2 EXCEPT !.runtime_versions =
                            IF engines # None /\ IsDict(engines[1])
                            THEN Update(@, StrEntries(engines[1].items)) ELSE @,
                         !.scripts =
                            IF pkg_scripts # None /\ IsDict(pkg_scripts[1])
                            THEN Update(@, StrValues(
                                     IF Len(pkg_scripts[1].items) > MAX_SCRIPTS
                                     THEN Take(pkg_scripts[1].items, MAX_SCRIPTS)
                                     ELSE pkg_scripts[1].items))
                            ELSE @]
        c1 == IF eslint_config # None /\ IsDict(eslint_config[1])
              THEN Put(a3.config_signals, "eslint", JDict(extract_eslint_config(eslint_config[1])))
              ELSE a3.config_signals
        c2 == IF prettier_config # None /\ IsDict(prettier_config[1])
              THEN Put(c1, "prettier", JDict(extract_prettier_config(prettier_config[1])))
              ELSE c1
        c3 == IF stylelint_config # None /\ IsDict(stylelint_config[1])
              THEN Put(c2, "stylelint", JDict(extract_stylelint_config(stylelint_config[1])))
              ELSE c2
    IN [a3 EXCEPT !.config_signals = c3]

\* lines 789-832
block_package_json(acc, env) ==
    IF ~Exists(env.files, "package.json") THEN acc
    ELSE LET loaded == LoadJson(acc, env.files, "package.json", env.max_bytes)
         IN IF GotDict(loaded) THEN package_json_signals(loaded.acc, loaded.data[1]) ELSE loaded.acc

TSCONFIG_NAMES == <<"tsconfig.json", "tsconfig.base.json", "tsconfig.app.json", "tsconfig.spec.json">>

\* lines 835-846: the loop from its i-th name on; st holds the locals and tsconfig_info
RECURSIVE tsconfig_from(_, _, _)
tsconfig_from(st, env, i) ==
    IF i > Len(TSCONFIG_NAMES) \/ ~Running(st.acc) THEN st
    ELSE LET ts_name == TSCONFIG_NAMES[i]
         IN IF ~Exists(env.files, ts_name) THEN tsconfig_from(st, env, i + 1)
            ELSE LET loaded == LoadJson(st.acc, env.files, ts_name, env.max_bytes)
                     extracted == extract_tsconfig(loaded.data[1])
                 IN tsconfig_from(
                        [acc |-> loaded.acc,
                         info |-> IF GotDict(loaded) /\ Len(extracted) > 0
                                  THEN Put(st.info, ts_name, JDict(extracted)) ELSE st.info],
                        env, i + 1)

\* lines 834-848
block_tsconfig(acc, env) ==
    LET st == tsconfig_from([acc |-> acc, info |-> <<>>], env, 1)
    IN IF Running(st.acc) /\ Len(st.info) > 0
       THEN [st.acc EXCEPT !.config_signals = Put(@, "tsconfig", JDict(st.info))]
       ELSE st.acc

\* lines 850-859
block_angular(acc, env) ==
    IF ~Exists(env.files, "angular.json") THEN acc
    ELSE LET loaded == LoadJson(acc, env.files, "angular.json", env.max_bytes)
             angular_info == extract_angular_config(loaded.data[1])
         IN IF GotDict(loaded) /\ Len(angular_info) > 0
            THEN [loaded.acc EXCEPT !.config_signals = Put(@, "angular", JDict(angular_info))]
            ELSE loaded.acc

\* the first of the names that exists: <<>> or <<name>>
FirstExisting(files, names) ==
    LET present == scan_root_files(files, names)
    IN IF Len(present) = 0 THEN None ELSE Some(present[1])

\* lines 861-873
block_eslintrc(acc, env) ==
    LET name == FirstExisting(env.files, <<".eslintrc", ".eslintrc.json">>)
    IN IF name = None THEN acc
       ELSE LET loaded == LoadJson(acc, env.files, name[1], env.max_bytes)
                extracted == extract_eslint_config(loaded.data[1])
            IN IF GotDict(loaded) /\ Len(extracted) > 0
               THEN [loaded.acc EXCEPT !.config_signals = Put(@, "eslint", JDict(extracted))]
               ELSE loaded.acc

\* lines 875-887
block_prettierrc(acc, env) ==
    LET name == FirstExisting(env.files, <<".prettierrc", ".prettierrc.json">>)
    IN IF name = None THEN acc
       ELSE LET loaded == LoadJson(acc, env.files, name[1], env.max_bytes)
                extracted == extract_prettier_config(loaded.data[1])
            IN IF GotDict(loaded) /\ Len(extracted) > 0
               THEN [loaded.acc EXCEPT !.config_signals = Put(@, "prettier", JDict(extracted))]
               ELSE loaded.acc

\* lines 889-901
block_stylelintrc(acc, env) ==
    LET name == FirstExisting(env.files, <<".stylelintrc", ".stylelintrc.json">>)
    IN IF name = None THEN acc
       ELSE LET loaded == LoadJson(acc, env.files, name[1], env.max_bytes)
                extracted == extract_stylelint_config(loaded.data[1])
            IN IF GotDict(loaded) /\ Len(extracted) > 0
               THEN [loaded.acc EXCEPT !.config_signals = Put(@, "stylelint", JDict(extracted))]
               ELSE loaded.acc

\* lines 903-913
block_babel(acc, env) ==
    LET name == FirstExisting(env.files, <<".babelrc", "babel.config.json">>)
    IN IF name = None THEN acc
       ELSE LET loaded == LoadJson(acc, env.files, name[1], env.max_bytes)
            IN IF GotDict(loaded)
               THEN [loaded.acc EXCEPT !.config_signals =
                        Put(@, "babel", JDict(extract_subset(loaded.data[1], <<"presets", "plugins">>)))]
               ELSE loaded.acc

\* lines 915-924
block_swc(acc, env) ==
    IF ~Exists(env.files, ".swcrc") THEN acc
    ELSE LET loaded == LoadJson(acc, env.files, ".swcrc", env.max_bytes)
         IN IF GotDict(loaded)
            THEN [loaded.acc EXCEPT !.config_signals =
                     Put(@, "swc", JDict(extract_subset(loaded.data[1],
                                             <<"jsc", "module", "sourceMaps", "minify", "env">>)))]
            ELSE loaded.acc

\* lines 926-932
block_editorconfig(acc, env) ==
    IF ~Exists(env.files, ".editorconfig") THEN acc
    ELSE LET loaded == LoadText(acc, env.files, ".editorconfig", env.max_bytes)
             editorconfig_info == extract_editorconfig(loaded.text)
         IN IF Running(loaded.acc) /\ Len(editorconfig_info) > 0
            THEN [loaded.acc EXCEPT !.config_signals = Put(@, "editorconfig", JDict(editorconfig_info))]
            ELSE loaded.acc

TEST_CONFIGS == <<"jest.config.js", "vitest.config.ts", "vitest.config.js",
                  "cypress.config.ts", "playwright.config.ts">>

\* lines 934-944
block_test_configs(acc, env) ==
    LET present == scan_root_files(env.files, TEST_CONFIGS)
    IN IF Len(present) = 0 THEN acc
       ELSE [acc EXCEPT !.config_signals = Put(@, "test_configs", JStrs(present))]

\* lines 946-954
block_lockfiles(acc, env) ==
    LET pnpm == Exists(env.files, "pnpm-lock.yaml")
        yarn == Exists(env.files, "yarn.lock")
        npm == Exists(env.files, "package-lock.json")
    IN [acc EXCEPT !.package_managers = @ \cup (IF pnpm THEN {"pnpm"} ELSE {})
                                          \cup (IF yarn THEN {"yarn"} ELSE {})
                                          \cup (IF npm THEN {"npm"} ELSE {}),
                   !.lockfiles = @ \cup (IF pnpm THEN {"pnpm-lock.yaml"} ELSE {})
                                   \cup (IF yarn THEN {"yarn.lock"} ELSE {})
                                   \cup (IF npm THEN {"package-lock.json"} ELSE {})]


\* a dict of str values as a document value
StrDict(es) ==
    LET AsMember(e) == Entry(e.k, JStr(e.v))
    IN JDict(Map(AsMember, es))
OrNull(opt) == IF opt = None THEN JNull ELSE opt[1]

\* lines 971-974
optional_deps_of(optional) ==
    LET groups == optional.items
    IN Flatten([i \in 1..Len(groups) |->
                   IF IsList(groups[i].v) THEN StrItems(groups[i].v.items) ELSE <<>>])

\* lines 988-992: the loop over dev.values() from its i-th group on
RECURSIVE poetry_groups_from(_, _, _)
poetry_groups_from(groups, i, all_deps) ==
    IF i > Len(groups) THEN all_deps
    ELSE LET group == groups[i].v
             group_deps == IF IsDict(group) THEN GetOr(group, "dependencies", EmptyDict) ELSE JNull
         IN poetry_groups_from(groups, i + 1,
                IF IsDict(group_deps) THEN Update(all_deps, StrValues(group_deps.items)) ELSE all_deps)

\* lines 979-998, tool_section a dict
poetry_signals(acc, tool_section) ==
    LET poetry == GetOr(tool_section, "poetry", EmptyDict)
    IN IF ~IsDict(poetry) THEN acc
       ELSE LET deps == GetOr(poetry, "dependencies", EmptyDict)
                dev == GetOr(poetry, "group", EmptyDict)
                own == IF IsDict(deps) THEN StrValues(deps.items) ELSE <<>>
                all_deps == IF IsDict(dev) THEN poetry_groups_from(dev.items, 1, own) ELSE own
                a1 == Classify([acc EXCEPT !.package_managers = @ \cup {"poetry"}],
                               normalize_dep_names(all_deps))
            IN IF Len(all_deps) > 0
               THEN [a1 EXCEPT !.dependencies =
                        Put(@, "pyproject.toml(poetry)", summarize_dependencies(all_deps))]
               ELSE a1

\* lines 999-1030, tool_section a dict
pyproject_tool_configs(config_signals, tool_section) ==
    LET ruff_cfg == Get(tool_section, "ruff")
        black_cfg == Get(tool_section, "black")
        mypy_cfg == Get(tool_section, "mypy")
        pytest_cfg == Get(tool_section, "pytest")
        ini_opts == IF pytest_cfg # None /\ IsDict(pytest_cfg[1])
                    THEN Get(pytest_cfg[1], "ini_options") ELSE None
        c1 == IF ruff_cfg # None /\ IsDict(ruff_cfg[1])
              THEN Put(config_signals, "ruff",
                       JDict(extract_subset(ruff_cfg[1],
                           <<"select", "ignore", "extend-select", "extend-ignore",
                             "line-length", "target-version">>)))
              ELSE config_signals
        c2 == IF black_cfg # None /\ IsDict(black_cfg[1])
              THEN Put(c1, "black",
                       JDict(extract_subset(black_cfg[1],
                           <<"line-length", "target-version", "skip-string-normalization">>)))
              ELSE c1
        c3 == IF mypy_cfg # None /\ IsDict(mypy_cfg[1])
              THEN Put(c2, "mypy",
                       JDict(extract_subset(mypy_cfg[1],
                           <<"python_version", "strict", "ignore_missing_imports">>)))
              ELSE c2
    IN IF ini_opts # None /\ IsDict(ini_opts[1])
       THEN Put(c3, "pytest", JDict(extract_subset(ini_opts[1], <<"addopts", "testpaths", "pythonpath">>)))
       ELSE c3

\* lines 963-1030, data a dict
pyproject_signals(acc, data) ==
    LET project == GetOr(data, "project", EmptyDict)
        deps == IF IsDict(project) THEN GetOr(project, "dependencies", JList(<<>>)) ELSE JNull
        optional == IF IsDict(project) THEN GetOr(project, "optional-dependencies", EmptyDict) ELSE JNull
        optional_deps == IF IsDict(optional) THEN optional_deps_of(optional) ELSE <<>>
        tool_section == GetOr(data, "tool", EmptyDict)
        d1 == IF IsList(deps)
              THEN Put(acc.dependencies, "pyproject.toml", summarize_list(StrItems(deps.items)))
              ELSE acc.dependencies
        d2 == IF Len(optional_deps) > 0
              THEN Put(d1, "pyproject.toml(optional)", summarize_list(optional_deps))
              ELSE d1
        a1 == [acc EXCEPT !.languages = @ \cup {"Python"}, !.dependencies = d2]
    IN IF ~IsDict(tool_section) THEN a1
       ELSE LET a2 == poetry_signals(a1, tool_section)
            IN [a2 EXCEPT !.config_signals = pyproject_tool_configs(@, tool_section)]

\* lines 956-1030
block_pyproject(acc, env) ==
    IF ~Exists(env.files, "pyproject.toml") THEN acc
    ELSE LET loaded == LoadToml(acc, env.files, "pyproject.toml", env.max_bytes)
         IN IF GotDict(loaded) THEN pyproject_signals(loaded.acc, loaded.data[1]) ELSE loaded.acc

\* re.split(r"[=<>!~]", r, 1)[0].lower()
requirement_name(r) ==
    LET cut == FindAny(r, "=<>!~")
    IN Lower(IF cut = 0 THEN r ELSE SubSeq(r, 1, cut - 1))

\* lines 1033-1043, one turn of the loop
block_requirements(acc, env, req_name) ==
    IF ~Running(acc) \/ ~Exists(env.files, req_name) THEN acc
    ELSE LET loaded == LoadText(acc, env.files, req_name, env.max_bytes)
             reqs == extract_requirements(loaded.text)
             dep_names == {requirement_name(reqs[i]) : i \in 1..Len(reqs)}
         IN IF ~Running(loaded.acc) THEN loaded.acc
            ELSE [Classify(loaded.acc, dep_names)
                     EXCEPT !.dependencies = Put(@, req_name, summarize_list(reqs)),
                            !.languages = @ \cup {"Python"}]

\* lines 1046-1047 without the test of line 1045
block_pipfile_unguarded(acc, env) ==
    [acc EXCEPT !.package_managers = @ \cup {"pipenv"}, !.languages = @ \cup {"Python"}]

\* lines 1045-1047
block_pipfile(acc, env) ==
    IF ~Exists(env.files, "Pipfile") THEN acc
    ELSE [acc EXCEPT !.package_managers = @ \cup {"pipenv"}, !.languages = @ \cup {"Python"}]

\* dict(parser.items(section)) and _extract_subset of it
ini_subset(parser, section, keys) == JDict(extract_subset(StrDict(Lookup(parser, section)), keys))

\* lines 1050-1073, one turn of the loop
block_ini(acc, env, ini_name) ==
    IF ~Exists(env.files, ini_name) THEN acc
    ELSE LET r == read_ini(env.files[ini_name])
         IN IF r.error # "" THEN [acc EXCEPT !.parse_errors = Put(@, ini_name, r.error)]
            ELSE LET parser == r.parser[1]
                     c1 == IF Has(parser, "flake8")
                           THEN Put(acc.config_signals, "flake8",
                                    ini_subset(parser, "flake8", <<"max-line-length", "ignore", "extend-ignore">>))
                           ELSE acc.config_signals
                     c2 == IF Has(parser, "mypy")
                           THEN Put(c1, "mypy",
                                    ini_subset(parser, "mypy",
                                               <<"python_version", "strict", "ignore_missing_imports">>))
                           ELSE c1
                     c3 == IF Has(parser, "tool:pytest")
                           THEN Put(c2, "pytest",
                                    ini_subset(parser, "tool:pytest", <<"addopts", "testpaths", "pythonpath">>))
                           ELSE c2
                 IN [acc EXCEPT !.config_signals = c3]

\* lines 1075-1093
block_ruff_toml(acc, env) ==
    IF ~Exists(env.files, "ruff.toml") THEN acc
    ELSE LET loaded == LoadToml(acc, env.files, "ruff.toml", env.max_bytes)
             lint_cfg == Get(loaded.data[1], "lint")
             format_cfg == Get(loaded.data[1], "format")
             c1 == IF lint_cfg # None /\ IsDict(lint_cfg[1])
                   THEN Put(loaded.acc.config_signals, "ruff",
                            JDict(extract_subset(lint_cfg[1],
                                <<"select", "ignore", "extend-select", "extend-ignore", "per-file-ignores">>)))
                   ELSE loaded.acc.config_signals
             c2 == IF format_cfg # None /\ IsDict(format_cfg[1])
                   THEN Put(c1, "ruff_format",
                            JDict(extract_subset(format_cfg[1],
                                <<"quote-style", "indent-style", "line-ending">>)))
                   ELSE c1
         IN IF GotDict(loaded) THEN [loaded.acc EXCEPT !.config_signals = c2] ELSE loaded.acc


SPRING_BOOT == [name |-> "Spring Boot", package |-> "spring-boot"]

\* lines 1095-1109
block_go_mod(acc, env) ==
    IF ~Exists(env.files, "go.mod") THEN acc
    ELSE LET loaded == LoadText(acc, env.files, "go.mod", env.max_bytes)
             module_match == GoDirective(loaded.text, "module")
             go_match == GoDirective(loaded.text, "go")
             go_info == (IF module_match # None THEN <<Entry("module", JStr(module_match[1]))>> ELSE <<>>)
                        \o (IF go_match # None THEN <<Entry("version", JStr(go_match[1]))>> ELSE <<>>)
         IN IF ~Running(loaded.acc) THEN loaded.acc
            ELSE [loaded.acc EXCEPT !.languages = @ \cup {"Go"},
                                    !.build_systems = @ \cup {"Go modules"},
                                    !.extra = IF Len(go_info) > 0 THEN Put(@, "go", JDict(go_info)) ELSE @]

\* lines 1118-1134, data a dict
cargo_signals(acc, data) ==
    LET package == GetOr(data, "package", EmptyDict)
        deps == GetOr(data, "dependencies", EmptyDict)
        a1 == [acc EXCEPT !.languages = @ \cup {"Rust"},
                          !.build_systems = @ \cup {"Cargo"},
                          !.extra = IF IsDict(package)
                                    THEN Put(@, "cargo_package",
                                             JDict(<<Entry("name", OrNull(Get(package, "name"))),
                                                     Entry("version", OrNull(Get(package, "version")))>>))
                                    ELSE @]
    IN IF ~IsDict(deps) THEN a1
       ELSE Classify([a1 EXCEPT !.dependencies =
                         Put(@, "Cargo.toml", summarize_dependencies(StrValues(deps.items)))],
                     normalize_dep_names(deps.items))

\* lines 1111-1134
block_cargo(acc, env) ==
    IF ~Exists(env.files, "Cargo.toml") THEN acc
    ELSE LET loaded == LoadToml(acc, env.files, "Cargo.toml", env.max_bytes)
         IN IF GotDict(loaded) THEN cargo_signals(loaded.acc, loaded.data[1]) ELSE loaded.acc

\* lines 1136-1146
block_pom(acc, env) ==
    IF ~Exists(env.files, "pom.xml") THEN acc
    ELSE LET loaded == LoadText(acc, env.files, "pom.xml", env.max_bytes)
             text == loaded.text
             pom_info == extract_pom_info(text)
         IN IF ~Running(loaded.acc) THEN loaded.acc
            ELSE [loaded.acc EXCEPT
                     !.languages = @ \cup {"Java"},
                     !.build_systems = @ \cup {"Maven"},
                     !.extra = IF Len(pom_info) > 0 THEN Put(@, "maven", StrDict(pom_info)) ELSE @,
                     !.frameworks = IF Contains(text, "spring-boot") \/ Contains(text, "org.springframework.boot")
                                    THEN Append(@, SPRING_BOOT) ELSE @]

\* lines 1149-1160, one turn of the loop
block_gradle(acc, env, gradle_file) ==
    IF ~Running(acc) \/ ~Exists(env.files, gradle_file) THEN acc
    ELSE LET loaded == LoadText(acc, env.files, gradle_file, env.max_bytes)
             text == loaded.text
             plugins == extract_gradle_plugins(text)
         IN IF ~Running(loaded.acc) THEN loaded.acc
            ELSE [loaded.acc EXCEPT
                     !.languages = @ \cup {"Java/Kotlin"},
                     !.build_systems = @ \cup {"Gradle"},
                     !.extra = IF Len(plugins) > 0
                               THEN Put(@, gradle_file \o ".plugins", JStrs(plugins)) ELSE @,
                     !.frameworks = IF Contains(text, "org.springframework.boot") \/ Contains(text, "spring-boot")
                                    THEN Append(@, SPRING_BOOT) ELSE @]

\* lines 1169-1178, data a dict
composer_signals(acc, data) ==
    LET deps == GetOr(data, "require", EmptyDict)
        a1 == [acc EXCEPT !.languages = @ \cup {"PHP"}]
    IN IF ~IsDict(deps) THEN a1
       ELSE Classify([a1 EXCEPT !.dependencies =
                         Put(@, "composer.json", summarize_dependencies(StrValues(deps.items)))],
                     normalize_dep_names(deps.items))

\* lines 1162-1178
block_composer(acc, env) ==
    IF ~Exists(env.files, "composer.json") THEN acc
    ELSE LET loaded == LoadJson(acc, env.files, "composer.json", env.max_bytes)
         IN IF GotDict(loaded) THEN composer_signals(loaded.acc, loaded.data[1]) ELSE loaded.acc

\* lines 1180-1194
block_gemfile(acc, env) ==
    IF ~Exists(env.files, "Gemfile") THEN acc
    ELSE LET loaded == LoadText(acc, env.files, "Gemfile", env.max_bytes)
             gems == extract_ruby_gems(loaded.text)
             ruby_version == extract_ruby_version(loaded.text)
             a1 == [loaded.acc EXCEPT !.languages = @ \cup {"Ruby"}]
             a2 == IF Len(gems) > 0
                   THEN Classify([a1 EXCEPT !.dependencies = Put(@, "Gemfile", summarize_list(gems))],
                                 {Lower(gems[i]) : i \in 1..Len(gems)})
                   ELSE a1
         IN IF ~Running(loaded.acc) THEN loaded.acc
            ELSE [a2 EXCEPT !.runtime_versions =
                     IF ruby_version # None /\ Len(ruby_version[1]) > 0
                     THEN Put(@, "ruby", ruby_version[1]) ELSE @]

\* text.strip() with no splitlines()[0] after it
first_line_and_rest(text) == Strip(text)

\* text.strip().splitlines()[0] if text.strip() else ""
first_line(text) == IF Len(Strip(text)) > 0 THEN SplitLines(Strip(text))[1] ELSE ""

\* a pin file that leaves a runtime key alone once it has a value
block_pin_keeps_first(acc, env, filename, runtime_key) ==
    IF ~Running(acc) \/ ~Exists(env.files, filename) THEN acc
    ELSE LET loaded == LoadText(acc, env.files, filename, env.max_bytes)
             version == first_line(loaded.text)
         IN IF ~Running(loaded.acc) THEN loaded.acc
            ELSE [loaded.acc EXCEPT !.runtime_versions =
                     IF Len(version) > 0 THEN SetDefault(@, runtime_key, version) ELSE @]

\* lines 1202-1209, one turn of the loop
block_pin(acc, env, filename, runtime_key) ==
    IF ~Running(acc) \/ ~Exists(env.files, filename) THEN acc
    ELSE LET loaded == LoadText(acc, env.files, filename, env.max_bytes)
             version == first_line(loaded.text)
         IN IF ~Running(loaded.acc) THEN loaded.acc
            ELSE [loaded.acc EXCEPT !.runtime_versions =
                     IF Len(version) > 0 THEN Put(@, runtime_key, version) ELSE @]

\* lines 1211-1215
block_tool_versions(acc, env) ==
    IF ~Exists(env.files, ".tool-versions") THEN acc
    ELSE LET loaded == LoadText(acc, env.files, ".tool-versions", env.max_bytes)
         IN IF ~Running(loaded.acc) THEN loaded.acc
            ELSE [loaded.acc EXCEPT !.runtime_versions = Update(@, extract_tool_versions(loaded.text))]

CI_FILES == <<".gitlab-ci.yml", "azure-pipelines.yml", ".circleci/config.yml">>

\* lines 1217-1223; env.entries is <<>> when .github/workflows does not exist
block_ci_cd(acc, env) ==
    LET workflows == IF env.entries = None THEN <<>> ELSE scan_workflows(env.entries[1])
        Detected(name) == name \in SeqToSet(acc.detected_files)
    IN [acc EXCEPT !.ci_cd = IF Len(workflows) > 0 THEN workflows ELSE SelectSeq(CI_FILES, Detected)]

\* lines 1225-1226
block_dockerfile(acc, env) ==
    IF ~Exists(env.files, "Dockerfile") THEN acc
    ELSE [acc EXCEPT !.container = Put(@, "dockerfile", JStr("Dockerfile"))]

\* lines 1228-1236, one turn of the loop
block_compose(acc, env, compose_name) ==
    IF ~Running(acc) \/ ~Exists(env.files, compose_name) THEN acc
    ELSE LET loaded == LoadText(acc, env.files, compose_name, env.max_bytes)
             services == extract_docker_compose_services(loaded.text)
             c1 == Put(loaded.acc.container, "compose", JStr(compose_name))
         IN IF ~Running(loaded.acc) THEN loaded.acc
            ELSE [loaded.acc EXCEPT !.container =
                     IF Len(services) > 0 THEN Put(c1, "compose_services", JStrs(services)) ELSE c1]


---------------------------------------------------------------------------
(* The blocks in the order of the function body, and its end. *)

LastBlock == 37

\* the k-th block of init_repo_context; a call that has raised runs nothing more
RunBlock(k, acc, env) ==
    IF ~Running(acc) THEN acc
    ELSE CASE k = 1 -> block_scan(acc, env)
           [] k = 2 -> block_package_json(acc, env)
           [] k = 3 -> block_tsconfig(acc, env)
           [] k = 4 -> block_angular(acc, env)
           [] k = 5 -> block_eslintrc(acc, env)
           [] k = 6 -> block_prettierrc(acc, env)
           [] k = 7 -> block_stylelintrc(acc, env)
           [] k = 8 -> block_babel(acc, env)
           [] k = 9 -> block_swc(acc, env)
           [] k = 10 -> block_editorconfig(acc, env)
           [] k = 11 -> block_test_configs(acc, env)
           [] k = 12 -> block_lockfiles(acc, env)
           [] k = 13 -> block_pyproject(acc, env)
           [] k = 14 -> block_requirements(acc, env, "requirements.txt")
           [] k = 15 -> block_requirements(acc, env, "requirements-dev.txt")
           [] k = 16 -> block_pipfile(acc, env)
           [] k = 17 -> block_ini(acc, env, "setup.cfg")
           [] k = 18 -> block_ini(acc, env, "tox.ini")
           [] k = 19 -> block_ini(acc, env, "pytest.ini")
           [] k = 20 -> block_ini(acc, env, "mypy.ini")
           [] k = 21 -> block_ruff_toml(acc, env)
           [] k = 22 -> block_go_mod(acc, env)
           [] k = 23 -> block_cargo(acc, env)
           [] k = 24 -> block_pom(acc, env)
           [] k = 25 -> block_gradle(acc, env, "build.gradle")
           [] k = 26 -> block_gradle(acc, env, "build.gradle.kts")
           [] k = 27 -> block_composer(acc, env)
           [] k = 28 -> block_gemfile(acc, env)
           [] k = 29 -> block_pin(acc, env, ".nvmrc", "node")
           [] k = 30 -> block_pin(acc, env, ".node-version", "node")
           [] k = 31 -> block_pin(acc, env, ".python-version", "python")
           [] k = 32 -> block_pin(acc, env, ".ruby-version", "ruby")
           [] k = 33 -> block_tool_versions(acc, env)
           [] k = 34 -> block_ci_cd(acc, env)
           [] k = 35 -> block_dockerfile(acc, env)
           [] k = 36 -> block_compose(acc, env, "docker-compose.yml")
           [] k = 37 -> block_compose(acc, env, "docker-compose.yaml")

\* blocks k..last, in order, up to the first that raises
RECURSIVE RunRange(_, _, _, _)
RunRange(k, last, acc, env) ==
    IF k > last \/ ~Running(acc) THEN acc
    ELSE RunRange(k + 1, last, RunBlock(k, acc, env), env)

RunFrom(k, acc, env) == RunRange(k, LastBlock, acc, env)

NOTES == "Use this context (including config signals and doc_hints) to tailor the review; call read_file for deeper inspection."

\* lines 1238-1271: context and payload from the locals of a call that has not raised
Payload(acc) ==
    LET languages == Sorted(acc.languages)
        tools == Sorted(acc.tools)
        doc_hints == acc.languages \cup acc.tools
                     \cup {acc.frameworks[i].name : i \in 1..Len(acc.frameworks)}
    IN [repo_root |-> acc.root,
        detected_files |-> acc.detected_files,
        truncated_files |-> acc.truncated_files,
        parse_errors |-> acc.parse_errors,
        context |-> [repo_root |-> acc.root,
                     languages |-> languages,
                     frameworks |-> acc.frameworks,
                     tools |-> tools,
                     config |-> acc.config_signals,
                     package_managers |-> Sorted(acc.package_managers),
                     runtime_versions |-> acc.runtime_versions,
                     ci_cd |-> acc.ci_cd,
                     dependencies |-> acc.dependencies,
                     lockfiles |-> Sorted(acc.lockfiles),
                     build_systems |-> Sorted(acc.build_systems),
                     container |-> acc.container,
                     scripts |-> acc.scripts,
                     doc_hints |-> Sorted(doc_hints),
                     extra |-> acc.extra],
        notes |-> NOTES]

\* the whole body on one reading of the repository: how the call ended and,
\* if it returned, what it returned
Ended(acc) == [raised |-> acc.raised, payload |-> IF Running(acc) THEN Some(Payload(acc)) ELSE None]

Outcome(root, env) == Ended(RunFrom(1, NewCall(root), env))


---------------------------------------------------------------------------
(* The repositories the model runs over. *)

\* the concatenation of parts[lo..hi], by halves
RECURSIVE ConcatRange(_, _, _)
ConcatRange(parts, lo, hi) ==
    IF lo > hi THEN ""
    ELSE IF lo = hi THEN parts[lo]
    ELSE LET m == (lo + hi) \div 2
         IN ConcatRange(parts, lo, m) \o ConcatRange(parts, m + 1, hi)

\* n lines, the i-th being before, i, after
NumberedLines(before, n, after) ==
    ConcatRange([i \in 1..n |-> before \o NumStr(i) \o after \o "\n"], 1, n)

\* a JSON text that opens one array more than RECURSION_LIMIT
DEEP_ARRAYS == ConcatRange([i \in 1..(RECURSION_LIMIT + 1) |-> "["], 1, RECURSION_LIMIT + 1)

\* the bytes a catalog file may hold; every catalog file may be empty or absent
SAMPLES == <<
    [name |-> "package.json", data |-> "{dvpsgm}"],
    [name |-> "package.json", data |-> "{D}"],
    [name |-> "package.json", data |-> "{Fv}"],
    [name |-> "package.json", data |-> "{SE}"],
    [name |-> "package.json", data |-> "{eqy}"],
    [name |-> "package.json", data |-> "{d"],
    [name |-> "package.json", data |-> "[]"],
    [name |-> "package.json", data |-> DEEP_ARRAYS],
    [name |-> "composer.json", data |-> "{r}"],
    [name |-> "composer.json", data |-> "{R}"],
    [name |-> "composer.json", data |-> "r}"],
    [name |-> "tsconfig.json", data |-> "{cxi}"],
    [name |-> "tsconfig.json", data |-> "{c"],
    [name |-> "tsconfig.base.json", data |-> "{c}"],
    [name |-> "angular.json", data |-> "{jk}"],
    [name |-> "angular.json", data |-> "jk"],
    [name |-> ".eslintrc", data |-> "{Un}"],
    [name |-> ".eslintrc.json", data |-> "{u}"],
    [name |-> ".prettierrc", data |-> "{to}"],
    [name |-> ".stylelintrc", data |-> "{U}"],
    [name |-> ".babelrc", data |-> "{bn}"],
    [name |-> "babel.config.json", data |-> "{bz}"],
    [name |-> ".swcrc", data |-> "{wz}"],
    [name |-> ".prettierrc.json", data |-> "{tz}"],
    [name |-> ".editorconfig",
     data |-> "[*]\ncharset = utf-8\nmax_line_length = 100\n[*.py]\nindent_size = 4\n[**]\ncharset = latin1\n"],
    [name |-> "tox.ini",
     data |-> "[flake8]\nexclude = .git\nIgnore = E203\n[mypy]\nwarn_unused_ignores = True\nstrict = True\n[tool:pytest]\nminversion = 7\naddopts = -q\n"],
    [name |-> "pyproject.toml", data |-> "m"],
    [name |-> ".swcrc", data |-> "{w}"],
    [name |-> ".editorconfig", data |-> "root = true\n[*]\nindent_style = space\nindent_size = 2\n"],
    [name |-> "jest.config.js", data |-> "module.exports = {}\n"],
    [name |-> "yarn.lock", data |-> "# yarn lockfile v1\n"],
    [name |-> "pyproject.toml", data |-> "ptkdl"],
    [name |-> "pyproject.toml", data |-> "pb"],
    [name |-> "pyproject.toml", data |-> "j"],
    [name |-> "pyproject.toml", data |-> "P"],
    [name |-> "pyproject.toml", data |-> "OT"],
    [name |-> "pyproject.toml", data |-> "tb"],
    [name |-> "pyproject.toml", data |-> "[project"],
    [name |-> "requirements.txt", data |-> "# pinned\nDjango==4.2\n-r base.txt\n\npytest>=7\n"],
    [name |-> "requirements.txt", data |-> NumberedLines("pkg", MAX_DEPENDENCIES + OverCap, "==1.0")],
    [name |-> "requirements.txt", data |-> NumberedLines("pkg", MAX_DEPENDENCIES, "==1.0")],
    [name |-> "requirements.txt", data |-> "  Flask==2.0.1  \n\n# web\n-e .\n\tPyTest>=7\nrequests\n"],
    [name |-> "requirements-dev.txt", data |-> "ruff\nblack==24.1\n"],
    [name |-> "Pipfile", data |-> "[packages]\n"],
    [name |-> "setup.cfg", data |-> "[metadata]\nname = demo\n[flake8]\nmax-line-length = 100\nignore = E203\n"],
    [name |-> "setup.cfg", data |-> "name = demo\n"],
    [name |-> "setup.cfg", data |-> "[mypy]\nstrict = " \o BYTE_BAD \o "\n"],
    [name |-> "tox.ini", data |-> "[tool:pytest]\naddopts = -q\n"],
    [name |-> "mypy.ini", data |-> "[mypy]\npython_version = 3.11\nstrict = True\n"],
    [name |-> "ruff.toml", data |-> "lf"],
    [name |-> "ruff.toml", data |-> "ll"],
    [name |-> "go.mod", data |-> "module example.com/app\n\ngo 1.22\n"],
    [name |-> "Cargo.toml", data |-> "kd"],
    [name |-> "Cargo.toml", data |-> "D"],
    [name |-> "Cargo.toml", data |-> "dd"],
    [name |-> "pom.xml", data |-> "<project><groupId>org.demo</groupId><artifactId>spring-boot-app</artifactId></project>"],
    [name |-> "build.gradle", data |-> "plugins { id('java') id(\"org.springframework.boot\") }\n"],
    [name |-> "build.gradle.kts", data |-> NumberedLines("id(\"plugin", MAX_GRADLE_PLUGINS + OverCap, "\")")],
    [name |-> "Gemfile", data |-> "source 'https://rubygems.org'\nruby \"3.2.2\"\ngem 'rails', '~> 7.0'\ngem \"rspec\"\n"],
    [name |-> "Gemfile", data |-> NumberedLines("gem 'gem", MAX_DEPENDENCIES + OverCap, "'")],
    [name |-> ".nvmrc", data |-> "  18.17.0 \nlts\n"],
    [name |-> ".node-version", data |-> "\n \n20.5.1\nlatest\n"],
    [name |-> ".ruby-version", data |-> " \n\t\n"],
    [name |-> ".python-version", data |-> "3.11" \o BYTE_LEAD \o BYTE_CONT \o "\n"],
    [name |-> ".tool-versions", data |-> "# tools\nnodejs 20.1.0\npython 3.12.1 3.11.7\nnodejs 18.0.0\n"],
    [name |-> "Dockerfile", data |-> "FROM python:3.12\n"],
    [name |-> "docker-compose.yml", data |-> "version: '3'\nservices:\n  web:\n    image: demo\n  db:\n    image: pg\nvolumes:\n  data:\n"],
    [name |-> "docker-compose.yaml",
     data |-> "services:\n" \o NumberedLines("  svc", MAX_COMPOSE_SERVICES + OverCap, ":")],
    [name |-> ".gitlab-ci.yml", data |-> "stages: [test]\n"],
    [name |-> "Makefile", data |-> ""] >>

\* the entries a repository may hold beside the manifest under study: small
\* manifests, well formed and malformed, and catalog names that are directories
COMPANIONS == <<
    [name |-> "requirements-dev.txt", file |-> FileOf("ruff\nblack==24.1\n")],
    [name |-> "go.mod", file |-> FileOf("module example.com/app\n\ngo 1.22\n")],
    [name |-> "go.mod", file |-> Directory],
    [name |-> "package.json", file |-> FileOf("{d")],
    [name |-> "package.json", file |-> Directory],
    [name |-> "Cargo.toml", file |-> FileOf("kd")],
    [name |-> "setup.cfg", file |-> Directory],
    [name |-> "mypy.ini", file |-> FileOf("[mypy]\npython_version = 3.11\nstrict = True\n")],
    [name |-> "Dockerfile", file |-> Directory] >>

\* the listings .github/workflows may hold
WORKFLOW_NAMES == [i \in 1..(MAX_WORKFLOWS + OverCap) |-> "wf" \o NumStr(i) \o ".yml"]
WORKFLOW_LISTS == {<<"README.md", "ci.yml", "release.yaml">>, WORKFLOW_NAMES}
WORKFLOW_DIRS == {SeqToSet(q) : q \in WORKFLOW_LISTS}

\* iterdir yields a directory's entries in arbitrary order: two of the orders
Reverse(q) == [i \in 1..Len(q) |-> q[Len(q) + 1 - i]]
LISTINGS == UNION {{q, Reverse(q)} : q \in WORKFLOW_LISTS}
Listings(dir) ==
    IF dir = None THEN {None}
    ELSE {Some(q) : q \in {l \in LISTINGS : SeqToSet(l) = dir[1]}}

\* the root that holds the given [name, file] entries and nothing else
Repo(entries) ==
    [n \in RootFileSet |->
        IF \E e \in entries : e.name = n
        THEN (CHOOSE e \in entries : e.name = n).file
        ELSE Absent]

DistinctNames(entries) == \A e1, e2 \in entries : e1.name = e2.name => e1 = e2

\* the sets of at most k companions
RECURSIVE CompanionSets(_)
CompanionSets(k) ==
    IF k = 0 THEN {{}}
    ELSE LET smaller == CompanionSets(k - 1)
         IN smaller \cup {c \cup {COMPANIONS[i]} : c \in smaller, i \in 1..Len(COMPANIONS)}

\* the manifest under study: none, or one of the samples
Studied == {{}} \cup {{[name |-> SAMPLES[i].name, file |-> FileOf(SAMPLES[i].data)]} : i \in 1..Len(SAMPLES)}

REPO_ROOT == "/work/repo"

\* the home directory of the user and the directory the server is started in
HOME == "/home/dev"
CWD == "/srv/app"

\* a process whose root set_repo_root has bound, with git at hand
SETTLED ==
    [override |-> Some(REPO_ROOT), environ |-> <<>>,
     git |-> [found |-> TRUE, code |-> 0, out |-> REPO_ROOT \o "\n"], cwd |-> REPO_ROOT]

\* the environments a server is started in: each variable unset, empty or set
Rec(S) == {<<>>} \cup {<<e>> : e \in S}
ENVIRONS ==
    {a \o b \o c \o d :
        a \in Rec({Entry("CODE_REVIEWER_REPO_ROOT", ""), Entry("CODE_REVIEWER_REPO_ROOT", "~/review/")}),
        b \in Rec({Entry("VSCODE_WORKSPACE_FOLDER", "/ws/folder")}),
        c \in Rec({Entry("WORKSPACE_FOLDER", ""), Entry("WORKSPACE_FOLDER", "ws")}),
        d \in Rec({Entry("VSCODE_CWD", "/ws/cwd")})}

\* git: not installed, failing outside a work tree, answering nothing, answering
GITS == {[found |-> FALSE, code |-> 0, out |-> ""],
         [found |-> TRUE, code |-> 128, out |-> ""],
         [found |-> TRUE, code |-> 0, out |-> "\n"],
         [found |-> TRUE, code |-> 0, out |-> "/srv/app\n"]}

PROCESSES == {[override |-> None, environ |-> e, git |-> g, cwd |-> CWD \o "/pkg"] : e \in ENVIRONS, g \in GITS}

\* the repositories on which sequences of calls and overlapping calls are run
SMALL_REPOS == {
    {},
    {[name |-> "package.json", file |-> FileOf("{dvpsgm}")],
     [name |-> "go.mod", file |-> FileOf("module example.com/app\n\ngo 1.22\n")]},
    {[name |-> "package.json", file |-> FileOf("{d")],
     [name |-> "Dockerfile", file |-> FileOf("FROM python:3.12\n")]},
    {[name |-> "package.json", file |-> FileOf(DEEP_ARRAYS)],
     [name |-> "requirements.txt", file |-> FileOf("Django==4.2\n")]} }

\* what an edit of the working tree may leave at a catalog name
EDITS == {
    [name |-> "go.mod", file |-> Directory],
    [name |-> "go.mod", file |-> Absent],
    [name |-> "package.json", file |-> FileOf("{dvpsgm}")] }

\* the roots that hold, for each of the first n choices, no entry or a file
\* with one of its datas
RECURSIVE Combos(_, _)
Combos(choices, n) ==
    IF n = 0 THEN {{}}
    ELSE LET Files(c) == {{[name |-> c.name, file |-> FileOf(d)]} : d \in c.datas}
         IN {fewer \cup more : fewer \in Combos(choices, n - 1), more \in {{}} \cup Files(choices[n])}

\* the files that supply runtime versions, several of them for one runtime
VERSION_CHOICES == <<
    [name |-> "package.json", datas |-> {"{g}"}],
    [name |-> "Gemfile", datas |-> {"ruby \"3.2.2\"\ngem 'rails'\n", "gem 'rails'\n"}],
    [name |-> ".nvmrc", datas |-> {"  18.17.0 \nlts\n", " \n"}],
    [name |-> ".node-version", datas |-> {"20.5.1\n", ""}],
    [name |-> ".python-version", datas |-> {"3.11.4\n"}],
    [name |-> ".ruby-version", datas |-> {"3.3.0\n", "\n\n"}],
    [name |-> ".tool-versions",
     datas |-> {"# tools\nnode 21.0.0\npython 3.12.1 3.11.7\nruby 3.0.0\n", "node\n"}] >>

\* the manifests whose dependencies are classified, several of them declaring
\* one framework, one of them past the cap of its extractor
MANIFEST_CHOICES == <<
    [name |-> "package.json", datas |-> {"{dvpsgm}"}],
    [name |-> "pyproject.toml", datas |-> {"t", "p"}],
    [name |-> "requirements.txt",
     datas |-> {"Django==4.2\nFastAPI>=0.110\nexpress\n",
                NumberedLines("pkg", MAX_DEPENDENCIES, "==1.0") \o "Django==4.2\n"}],
    [name |-> "requirements-dev.txt", datas |-> {"django\npytest>=7\n"}],
    [name |-> "Cargo.toml", datas |-> {"kd"}],
    [name |-> "composer.json", datas |-> {"{r}"}],
    [name |-> "Gemfile", datas |-> {"gem 'rails'\ngem \"Express\"\n"}] >>

\* the repositories that hold several manifests at once
\* roots where several files configure one tool
CONFIG_CHOICES == <<
    [name |-> "package.json", datas |-> {"{eqy}"}],
    [name |-> ".eslintrc", datas |-> {"{un}"}],
    [name |-> ".prettierrc", datas |-> {"{to}"}],
    [name |-> ".stylelintrc", datas |-> {"{u}"}],
    [name |-> "pyproject.toml", datas |-> {"t"}],
    [name |-> "setup.cfg",
     datas |-> {"[flake8]\nmax-line-length = 100\nignore = E203\n[mypy]\nstrict = True\n"}],
    [name |-> "tox.ini", datas |-> {"[flake8]\nextend-ignore = W503\n[tool:pytest]\naddopts = -q\n"}],
    [name |-> "pytest.ini", datas |-> {"[tool:pytest]\ntestpaths = tests\n"}],
    [name |-> "mypy.ini", datas |-> {"[mypy]\npython_version = 3.11\n"}],
    [name |-> "ruff.toml", datas |-> {"lf"}] >>

MIXED_REPOS ==
    Combos(VERSION_CHOICES, Len(VERSION_CHOICES)) \cup Combos(MANIFEST_CHOICES, Len(MANIFEST_CHOICES))
    \cup Combos(CONFIG_CHOICES, Len(CONFIG_CHOICES))

\* the byte strings of at most n bytes over the given bytes
RECURSIVE ByteStrings(_, _)
ByteStrings(alphabet, n) ==
    IF n = 0 THEN {""}
    ELSE LET shorter == ByteStrings(alphabet, n - 1)
         IN shorter \cup {s \o b : s \in shorter, b \in alphabet}

READER_BYTES == {"a", "\n", BYTE_LEAD, BYTE_CONT, BYTE_BAD}

---------------------------------------------------------------------------
(* Bounds. *)

\* entries (companions, the workflows directory) beside the manifest under study
MaxCompanions == 1
\* a max_bytes argument that is smaller than most manifests
SmallCap == 4
\* tool calls made on one surveyed repository
SurveyCalls == 1
\* tool calls and edits in one run of calls in sequence
MaxCalls == 3
\* tool calls in one run of overlapping calls, and how many may overlap
ConcCalls == 3
MaxOverlap == 2
\* tool calls in one run of calls that choose and change the root
RootCalls == 3
\* the longest file the bounded reader is run on alone
MaxLen == 3

MAX_BYTES_ARGS == {MAX_FILE_BYTES, SmallCap}
\* the caps of the reader on its own: every cap up to one past the longest file, and -1
READER_CAPS == (0 - 1)..(MaxLen + 1)

---------------------------------------------------------------------------
(* The tools. *)

\* what one call reads: the root, the workflows directory as iterdir yields it
\* to this call, and the argument
Env(max_bytes, entries) == [files |-> fs, entries |-> entries, max_bytes |-> max_bytes]

---------------------------------------------------------------------------
(* The repository root.  A path is a string; git is the program on PATH,   *)
(* or none, and what `git rev-parse --show-toplevel` answers in the cwd.   *)

\* Path.expanduser: a leading "~" stands for the home directory
expanduser(path) ==
    IF path = "~" THEN HOME
    ELSE IF StartsWith(path, "~/") THEN HOME \o Mid(path, 2, Len(path) - 1)
    ELSE path

\* Path.resolve on a tree without links: absolute, and no slash at the end
resolve(path, cwd) ==
    LET absolute == IF StartsWith(path, "/") THEN path
                    ELSE IF path = "" \/ path = "." THEN cwd
                    ELSE cwd \o "/" \o path
    IN IF Len(absolute) > 1 /\ EndsWith(absolute, "/") THEN Mid(absolute, 1, Len(absolute) - 1)
       ELSE absolute

\* _run, lines 58-71: subprocess.run raises FileNotFoundError when the
\* program is not on PATH; a return code that is not allowed is a CommandError
run(found, code, out) ==
    IF ~found THEN [raised |-> "FileNotFoundError", out |-> ""]
    ELSE IF code # 0 THEN [raised |-> "CommandError", out |-> ""]
    ELSE [raised |-> "", out |-> out]

\* the toplevel git names for the directories set_repo_root is called with,
\* "" where the directory is in no work tree
GIT_TOPLEVEL == <<Entry("/repos/one", "/repos/one"), Entry("/repos/two/src", "/repos/two"),
                  Entry(HOME \o "/app", HOME \o "/app"), Entry("/tmp/plain", "")>>

\* _resolve_git_root, lines 131-138
resolve_git_root(p, path) ==
    LET top == IF Has(GIT_TOPLEVEL, path) THEN Lookup(GIT_TOPLEVEL, path) ELSE ""
        ran == run(p.git.found, IF top = "" THEN 128 ELSE 0, top \o "\n")
    IN IF ran.raised = "FileNotFoundError" THEN [raised |-> "FileNotFoundError", root |-> ""]
       ELSE IF ran.raised # "" \/ Strip(ran.out) = "" THEN [raised |-> "CommandError", root |-> ""]
       ELSE [raised |-> "", root |-> resolve(Strip(ran.out), p.cwd)]

\* the paths set_repo_root is called with
ROOT_ARGS == {"/repos/one", "/repos/two/src", "~/app", "/tmp/plain"}

EDITOR_KEYS == <<"VSCODE_WORKSPACE_FOLDER", "WORKSPACE_FOLDER", "VSCODE_CWD">>

\* os.environ.get(key) is truthy
IsSet(environ, key) == Has(environ, key) /\ Lookup(environ, key) # ""

\* lines 86-93: the git query, whose CommandError alone is caught, and the
\* fall back to the cwd
root_of_git(p, ran) ==
    IF ran.raised = "" /\ Strip(ran.out) # "" THEN [raised |-> "", root |-> resolve(Strip(ran.out), p.cwd)]
    ELSE IF ran.raised = "" \/ ran.raised = "CommandError" THEN [raised |-> "", root |-> resolve(p.cwd, p.cwd)]
    ELSE [raised |-> ran.raised, root |-> ""]

\* _repo_root, lines 74-93: the root, or the exception that leaves it
repo_root(p) ==
    LET set == SelectSeq(<<"CODE_REVIEWER_REPO_ROOT">> \o EDITOR_KEYS, LAMBDA key : IsSet(p.environ, key))
    IN IF p.override # None THEN [raised |-> "", root |-> p.override[1]]
       ELSE IF Len(set) > 0
       THEN [raised |-> "", root |-> resolve(expanduser(Lookup(p.environ, set[1])), p.cwd)]
       ELSE root_of_git(p, run(p.git.found, p.git.code, p.git.out))

\* an entry of the log
CallEnded(env, ended) ==
    [op |-> "init_repo_context", max_bytes |-> env.max_bytes, entries |-> env.entries,
     raised |-> ended.raised, payload |-> ended.payload]
Edited == [op |-> "edit", max_bytes |-> 0, entries |-> None, raised |-> "", payload |-> None]

\* the global bound whether the call returns or raises
PublishAlways(ended, old) == ended.payload

\* line 1272 is reached only by a call that has not raised
Publish(ended, old) == IF ended.raised = "" THEN ended.payload ELSE old

\* init_repo_context(max_bytes) from its first line to its return or its
\* exception, ended being how it ends
Called(env, ended) ==
    /\ budget > 0
    /\ budget' = budget - 1
    /\ cache' = Publish(ended, cache)
    /\ log' = Append(log, CallEnded(env, ended))
    /\ UNCHANGED <<fs, workflows_dir, review, rd, calls, proc>>

\* line 674: an exception of _repo_root leaves the function at once
init_repo_context(env) ==
    IF repo_root(proc).raised # ""
    THEN Called(env, [raised |-> repo_root(proc).raised, payload |-> None])
    ELSE Called(env, Outcome(repo_root(proc).root, env))

CallInitRepoContext ==
    \E max_bytes \in MAX_BYTES_ARGS, entries \in Listings(workflows_dir) :
        init_repo_context(Env(max_bytes, entries))

REPO_CONTEXT_NOTE == "No repo context set. Run init_repo_context() first to capture framework/tooling context."

\* a review_pr call that an exception has left
ReviewRaised(exc) ==
    [raised |-> exc, repo_context |-> None, repo_context_note |-> None, repo_root |-> "", turn |-> budget]

\* review_pr, lines 565-627: _ensure_git_repo resolves the root and asks git;
\* then git and gh answer (ok) or one of them fails and CommandError leaves
\* the function before the cache is read
review_pr(ok) ==
    /\ budget > 0
    /\ budget' = budget - 1
    /\ review' = IF repo_root(proc).raised # "" THEN Some(ReviewRaised(repo_root(proc).raised))
                 ELSE IF ~proc.git.found THEN Some(ReviewRaised("FileNotFoundError"))
                 ELSE IF ok
                 THEN Some([raised |-> "",
                            repo_context |-> cache,
                            repo_context_note |-> IF cache = None THEN Some(REPO_CONTEXT_NOTE) ELSE None,
                            repo_root |-> repo_root(proc).root,
                            turn |-> budget])
                 ELSE Some(ReviewRaised("CommandError"))
    /\ UNCHANGED <<fs, workflows_dir, cache, log, rd, calls, proc>>

ReviewPr == \E ok \in BOOLEAN : review_pr(ok)

\* set_repo_root(path), lines 653-665: the override is bound only if
\* _resolve_git_root returns
set_repo_root(path) ==
    /\ budget > 0
    /\ budget' = budget - 1
    /\ proc' = IF resolve_git_root(proc, expanduser(path)).raised = ""
               THEN [proc EXCEPT !.override = Some(resolve_git_root(proc, expanduser(path)).root)]
               ELSE proc
    /\ log' = Append(log, [op |-> "set_repo_root", max_bytes |-> 0, entries |-> None,
                           raised |-> resolve_git_root(proc, expanduser(path)).raised, payload |-> None])
    /\ UNCHANGED <<fs, workflows_dir, cache, review, rd, calls>>

SetRepoRoot == \E path \in ROOT_ARGS : set_repo_root(path)

\* the working tree changes between two tool calls
EditFile ==
    \E e \in EDITS :
        /\ budget > 0
        /\ fs[e.name] # e.file
        /\ budget' = budget - 1
        /\ fs' = [fs EXCEPT ![e.name] = e.file]
        /\ log' = Append(log, Edited)
        /\ UNCHANGED <<workflows_dir, cache, review, rd, calls, proc>>

---------------------------------------------------------------------------
(* Overlapping calls.  Every call has its own locals (lines 673-694 and     *)
(* 777-787 bind them in the function body); the interpreter may switch to   *)
(* another call after any block.                                            *)

\* the last blocks of the parts of the body between which the model lets
\* another call run: JavaScript, Python, the other ecosystems, CI and containers
STOPS == {12, 21, 33, LastBlock}
StopAfter(k) == CHOOSE stop \in STOPS : stop >= k /\ \A other \in STOPS : other >= k => stop <= other

NoEnv == [files |-> <<>>, entries |-> None, max_bytes |-> 0]
Idle == [pc |-> 0, acc |-> NewCall(REPO_ROOT), env |-> NoEnv]

\* locals that every call shares, as module-level accumulators would be
SharedLocals(cs, c) == cs[1].acc

\* the locals the c-th call works on
Locals(cs, c) == cs[c].acc

\* the call enters the function: lines 672-694 and 777-787
Begin(c) ==
    \E max_bytes \in MAX_BYTES_ARGS, entries \in Listings(workflows_dir) :
        /\ budget > 0
        /\ calls[c].pc = 0
        /\ budget' = budget - 1
        /\ calls' = [calls EXCEPT ![c] = [pc |-> 1, acc |-> NewCall(REPO_ROOT),
                                          env |-> Env(max_bytes, entries)]]
        /\ UNCHANGED <<fs, workflows_dir, cache, log, review, rd, proc>>

\* the call has run its blocks up to the next stop and holds the locals after
Stepped(c, after) ==
    IF Running(after)
    THEN /\ calls' = [calls EXCEPT ![c] = [pc |-> StopAfter(calls[c].pc) + 1, acc |-> after,
                                          env |-> calls[c].env]]
         /\ UNCHANGED log
    ELSE /\ calls' = [calls EXCEPT ![c] = Idle]
         /\ log' = Append(log, CallEnded(calls[c].env, Ended(after)))

Step(c) ==
    /\ calls[c].pc \in 1..LastBlock
    /\ Stepped(c, RunRange(calls[c].pc, StopAfter(calls[c].pc), Locals(calls, c), calls[c].env))
    /\ UNCHANGED <<fs, workflows_dir, cache, review, budget, rd, proc>>

\* lines 1241-1273: the payload is built from the call's locals, bound to the
\* global and returned
Return(c) ==
    /\ calls[c].pc = LastBlock + 1
    /\ cache' = Some(Payload(Locals(calls, c)))
    /\ log' = Append(log, CallEnded(calls[c].env, Ended(Locals(calls, c))))
    /\ calls' = [calls EXCEPT ![c] = Idle]
    /\ UNCHANGED <<fs, workflows_dir, review, budget, rd, proc>>

CallIds == 1..MaxOverlap
BeginCall == \E c \in CallIds : Begin(c)
StepCall == \E c \in CallIds : Step(c)
ReturnCall == \E c \in CallIds : Return(c)

---------------------------------------------------------------------------
(* The bounded reader on its own. *)

NoReader == [data |-> "", max_bytes |-> 0, result |-> None]

ReadText ==
    /\ rd.result = None
    /\ rd' = [rd EXCEPT !.result = Some(read_text(rd.data, rd.max_bytes))]
    /\ UNCHANGED <<fs, workflows_dir, cache, log, review, budget, calls, proc>>

---------------------------------------------------------------------------
(* Specifications. *)

NoCalls == [c \in CallIds |-> Idle]

\* the process before any tool call, over the given repository
Fresh(entries, dir, n) ==
    /\ fs = Repo(entries)
    /\ workflows_dir = dir
    /\ cache = None
    /\ log = <<>>
    /\ review = None
    /\ budget = n
    /\ rd = NoReader
    /\ calls = NoCalls
    /\ proc = SETTLED

\* one call on every repository that holds a manifest under study and companions
Init ==
    \E studied \in Studied, others \in CompanionSets(MaxCompanions),
       dir \in {None} \cup {Some(d) : d \in WORKFLOW_DIRS} :
        /\ Cardinality(others) + Len(dir) <= MaxCompanions
        /\ DistinctNames(studied \cup others)
        /\ Fresh(studied \cup others, dir, SurveyCalls)

Next == CallInitRepoContext

Spec == Init /\ [][Next]_vars

\* calls one after the other, reviews and edits
InitCache ==
    \E entries \in SMALL_REPOS, dir \in {None} \cup {Some(d) : d \in WORKFLOW_DIRS} :
        Fresh(entries, dir, MaxCalls)

NextCache == CallInitRepoContext \/ ReviewPr \/ EditFile

SpecCache == InitCache /\ [][NextCache]_vars

\* overlapping calls and reviews over a repository that does not change
InitConc == \E entries \in SMALL_REPOS : Fresh(entries, None, ConcCalls)

NextConc == BeginCall \/ StepCall \/ ReturnCall \/ ReviewPr

SpecConc == InitConc /\ [][NextConc]_vars

\* one call on every repository that holds several manifests at once
InitMix == \E entries \in MIXED_REPOS : Fresh(entries, None, SurveyCalls)

NextMix == CallInitRepoContext

SpecMix == InitMix /\ [][NextMix]_vars

\* calls in every order in every process, over a root without catalog files
InitRoot ==
    /\ fs = Repo({})
    /\ workflows_dir = None /\ cache = None /\ log = <<>> /\ review = None
    /\ budget = RootCalls /\ rd = NoReader /\ calls = NoCalls
    /\ proc \in PROCESSES

NextRoot == CallInitRepoContext \/ ReviewPr \/ SetRepoRoot

SpecRoot == InitRoot /\ [][NextRoot]_vars

\* the reader on every short byte string under every cap
InitRead ==
    /\ fs = Repo({})
    /\ workflows_dir = None /\ cache = None /\ log = <<>> /\ review = None
    /\ budget = 0 /\ calls = NoCalls /\ proc = SETTLED
    /\ \E data \in ByteStrings(READER_BYTES, MaxLen), max_bytes \in READER_CAPS :
          rd = [data |-> data, max_bytes |-> max_bytes, result |-> None]

NextRead == ReadText

SpecRead == InitRead /\ [][NextRead]_vars

---------------------------------------------------------------------------
(* What the properties speak about. *)

\* the most recent entry of the log; whether it is a call that returned; its payload
Last == log[Len(log)]
Returned == Len(log) > 0 /\ Last.op = "init_repo_context" /\ Last.raised = ""
Raised == Len(log) > 0 /\ Last.op = "init_repo_context" /\ Last.raised # ""
Result == Last.payload[1]

\* the last call read the whole of the file
ReadWhole(name) == fs[name].kind = "file" /\ Len(fs[name].data) <= Last.max_bytes

\* the whole of a file as text and as a document: <<>> or <<value>>
WholeText(name) == Utf8DecodeReplace(fs[name].data)
JsonDoc(name) == IF fs[name].kind = "file" THEN json_loads(WholeText(name)).data ELSE None
TomlDoc(name) == IF fs[name].kind = "file" THEN toml_loads(WholeText(name)).data ELSE None

\* the member of a dict that is itself a dict or a list, or an empty one
DictAt(d, key) == IF IsDict(d) /\ Has(d.items, key) /\ IsDict(Lookup(d.items, key))
                  THEN Lookup(d.items, key) ELSE EmptyDict
ListAt(d, key) == IF IsDict(d) /\ Has(d.items, key) /\ IsList(Lookup(d.items, key))
                  THEN Lookup(d.items, key) ELSE JList(<<>>)
KeySet(d) == {d.items[i].k : i \in 1..Len(d.items)}
ItemSet(q) == {q[i] : i \in 1..Len(q)}

\* what a manifest declares: the dependencies and how many they are
DeclaresSet(names) == [names |-> names, count |-> Cardinality(names)]
DeclaresList(q) == [names |-> ItemSet(q), count |-> Len(q)]
Undeclared == [names |-> {}, count |-> 0]

IsRequirement(line) == Len(line) > 0 /\ ~StartsWith(line, "#") /\ ~StartsWith(line, "-")
RequirementsIn(text) == SelectSeq(StripAll(SplitLines(text)), IsRequirement)
GemIn(line) == IF Len(line) = 0 \/ StartsWith(line, "#") THEN None ELSE GemMatch(line)
GemsIn(text) == Just(Map(GemIn, StripAll(SplitLines(text))))

PoetryOf(doc) == DictAt(DictAt(doc, "tool"), "poetry")
PoetryGroups(doc) == DictAt(PoetryOf(doc), "group").items

DeclaredInDoc(key, doc) ==
    IF doc = None \/ ~IsDict(doc[1]) THEN Undeclared
    ELSE CASE key = "package.json" ->
                DeclaresSet(KeySet(DictAt(doc[1], "dependencies"))
                            \cup KeySet(DictAt(doc[1], "devDependencies"))
                            \cup KeySet(DictAt(doc[1], "peerDependencies")))
           [] key = "composer.json" -> DeclaresSet(KeySet(DictAt(doc[1], "require")))
           [] key = "Cargo.toml" -> DeclaresSet(KeySet(DictAt(doc[1], "dependencies")))
           [] key = "pyproject.toml" ->
                DeclaresList(StrItems(ListAt(DictAt(doc[1], "project"), "dependencies").items))
           [] key = "pyproject.toml(optional)" ->
                DeclaresList(optional_deps_of(DictAt(DictAt(doc[1], "project"), "optional-dependencies")))
           [] key = "pyproject.toml(poetry)" ->
                DeclaresSet(KeySet(DictAt(PoetryOf(doc[1]), "dependencies"))
                            \cup UNION {KeySet(DictAt(PoetryGroups(doc[1])[i].v, "dependencies")) :
                                          i \in 1..Len(PoetryGroups(doc[1]))})

\* the keys of context.dependencies and the manifest each summarises
SUMMARY_KEYS == {"package.json", "pyproject.toml", "pyproject.toml(optional)", "pyproject.toml(poetry)",
                 "requirements.txt", "requirements-dev.txt", "Cargo.toml", "composer.json", "Gemfile"}
ManifestOf(key) ==
    IF key \in {"pyproject.toml(optional)", "pyproject.toml(poetry)"} THEN "pyproject.toml" ELSE key

Declared(key) ==
    IF fs[ManifestOf(key)].kind # "file" THEN Undeclared
    ELSE CASE key \in {"requirements.txt", "requirements-dev.txt"} -> DeclaresList(RequirementsIn(WholeText(key)))
           [] key = "Gemfile" -> DeclaresList(GemsIn(WholeText(key)))
           [] key \in {"package.json", "composer.json"} -> DeclaredInDoc(key, JsonDoc(key))
           [] OTHER -> DeclaredInDoc(key, TomlDoc(ManifestOf(key)))

\* a summary of context.dependencies: its entries, their names, its flag
SummaryEntries(summary) ==
    IF Has(summary.items, "items") THEN Lookup(summary.items, "items").items
    ELSE Lookup(summary.items, "dependencies").items
SummaryNameOf(e) == IF "k" \in DOMAIN e THEN e.k ELSE e.s
SummaryNames(summary) == {SummaryNameOf(SummaryEntries(summary)[i]) : i \in 1..Len(SummaryEntries(summary))}
SummaryTruncated(summary) == Truthy(Lookup(summary.items, "truncated"))

SummaryAsDeclared(summary, declared) ==
    IF declared.count > MAX_DEPENDENCIES
    THEN Len(SummaryEntries(summary)) = MAX_DEPENDENCIES /\ SummaryTruncated(summary)
    ELSE /\ ~SummaryTruncated(summary)
         /\ Len(SummaryEntries(summary)) = declared.count
         /\ declared.names \subseteq SummaryNames(summary)

SummaryFor(key, declared, dependencies) ==
    declared.count > 0 =>
        /\ Has(dependencies, key)
        /\ SummaryAsDeclared(Lookup(dependencies, key), declared)

---------------------------------------------------------------------------
(* Properties. *)

\* C1: a manifest that was read whole and declares more than MAX_DEPENDENCIES
\* dependencies has a summary of exactly MAX_DEPENDENCIES entries with truncated
\* true; one that declares at most MAX_DEPENDENCIES has a summary with truncated
\* false that holds every declared dependency
C1_SummariesTellTruncation ==
    Returned =>
        \A key \in SUMMARY_KEYS :
            ReadWhole(ManifestOf(key)) => SummaryFor(key, Declared(key), Result.context.dependencies)

\* the same for the manifests whose summary is cut by _summarize_dependencies
\* or by _summarize_list alone, with no extractor loop cutting before them
DocumentSummariesTellTruncation ==
    Returned =>
        \A key \in SUMMARY_KEYS \ {"requirements.txt", "requirements-dev.txt", "Gemfile"} :
            ReadWhole(ManifestOf(key)) => SummaryFor(key, Declared(key), Result.context.dependencies)

\* the manifests in a structured format and what parsing the whole of one gives
JSON_MANIFESTS == {"package.json", "composer.json", "angular.json"} \cup SeqToSet(TSCONFIG_NAMES)
TOML_MANIFESTS == {"pyproject.toml", "Cargo.toml", "ruff.toml"}
WholeParse(name) ==
    IF name \in JSON_MANIFESTS THEN json_loads(WholeText(name)) ELSE toml_loads(WholeText(name))
Fails(parsed) == parsed.error # "" \/ parsed.raised # ""
Malformed(name) == fs[name].kind = "file" /\ Fails(WholeParse(name))

\* every entry of the root can be read
AllReadable == \A name \in RootFileSet : fs[name].kind # "dir"

\* the last call made on the root without one of its entries
Without(name) == [files |-> [fs EXCEPT ![name] = Absent], entries |-> Last.entries, max_bytes |-> Last.max_bytes]
ContextWithout(name) == Outcome(REPO_ROOT, Without(name)).payload[1].context

\* C2: a call over a root whose entries are all readable returns although a
\* structured manifest is malformed, names that manifest in parse_errors, and
\* returns the context it returns for the root without that manifest: nothing in
\* it derives from the manifest and the signals of the other manifests are there
C2_MalformedManifestSkipped ==
    (Len(log) > 0 /\ Last.op = "init_repo_context" /\ AllReadable) =>
        \A name \in JSON_MANIFESTS \cup TOML_MANIFESTS :
            (ReadWhole(name) /\ Malformed(name)) =>
                /\ Returned
                /\ Has(Result.parse_errors, name)
                /\ Result.context = ContextWithout(name)

\* the catalog names that init_repo_context reads whenever they exist
READ_NAMES ==
    {"package.json", "angular.json", ".eslintrc", ".prettierrc", ".stylelintrc", ".babelrc", ".swcrc",
     ".editorconfig", "pyproject.toml", "requirements.txt", "requirements-dev.txt", "setup.cfg",
     "tox.ini", "pytest.ini", "mypy.ini", "ruff.toml", "go.mod", "Cargo.toml", "pom.xml",
     "build.gradle", "build.gradle.kts", "composer.json", "Gemfile", ".nvmrc", ".node-version",
     ".python-version", ".ruby-version", ".tool-versions", "docker-compose.yml", "docker-compose.yaml"}
    \cup SeqToSet(TSCONFIG_NAMES)

\* C3: when an entry that the call reads cannot be read, the call returns, names
\* the entry in parse_errors, and returns the context it returns for the root
\* without that entry: the entry yields nothing and every other extractor runs
C3_ReadFailureRecorded ==
    (Len(log) > 0 /\ Last.op = "init_repo_context") =>
        \A name \in READ_NAMES :
            fs[name].kind = "dir" =>
                /\ Returned
                /\ Has(Result.parse_errors, name)
                /\ Result.context = ContextWithout(name)

\* a truncated flag that is true: in a dict, or among the keys the code adds to context
FlaggedDict(v) == IsDict(v) /\ Has(v.items, "truncated") /\ Truthy(Lookup(v.items, "truncated"))
FlaggedIn(entries) == \E i \in 1..Len(entries) : Contains(entries[i].k, "truncated") /\ Truthy(entries[i].v)
ValueAt(entries, key) == IF Has(entries, key) THEN Lookup(entries, key) ELSE JNull

\* how many entries the sources of the bounded collections hold
ScriptsDeclared == Len(DictAt(OrNull(JsonDoc("package.json")), "scripts").items)
GradlePluginsIn(text) == Cardinality({j \in 1..Len(text) : GradleMatchAt(text, j)})
ServiceBlock(lines, opens) ==
    IF opens = {} THEN <<>>
    ELSE LET Closes(i) == i > FirstOf(opens) /\ Len(lines[i]) > 0 /\ ~StartsWith(lines[i], " ")
                          /\ ~StartsWith(lines[i], "services:")
         IN SubSeq(lines, FirstOf(opens) + 1, FirstOf({i \in 1..Len(lines) : Closes(i)} \cup {Len(lines) + 1}) - 1)
ServiceLines(lines) == ServiceBlock(lines, {i \in 1..Len(lines) : StartsWith(lines[i], "services:")})
ComposeServicesIn(text) == Len(Just(Map(ServiceMatch, ServiceLines(Map(RStrip, SplitLines(text))))))
\* the rules of a linter: those of its rc file if there is one, else those in package.json
RcDoc(names) ==
    IF FirstExisting(fs, names) = None THEN None ELSE JsonDoc(FirstExisting(fs, names)[1])
RulesDeclaredIn(doc, member) ==
    Len(DictAt(IF member = "" THEN OrNull(doc) ELSE DictAt(OrNull(doc), member), "rules").items)
RulesDeclared(rc_names, member) ==
    IF FirstExisting(fs, rc_names) # None
    THEN IF ReadWhole(FirstExisting(fs, rc_names)[1]) THEN RulesDeclaredIn(RcDoc(rc_names), "") ELSE 0
    ELSE IF ReadWhole("package.json") THEN RulesDeclaredIn(JsonDoc("package.json"), member) ELSE 0

RulesFlagged(config, tool) ==
    \/ FlaggedDict(ValueAt(config, tool))
    \/ FlaggedDict(ValueAt(ValueAt(config, tool).items, "rules"))

\* C6: the scripts, the plugins of a gradle file, the services of a compose file
\* and the rule keys of a linter come with a truncated flag that is true whenever
\* their source, read whole, holds more entries than their cap
C6_CappedCollectionsFlagged ==
    Returned =>
        /\ (ReadWhole("package.json") /\ ScriptsDeclared > MAX_SCRIPTS) =>
               FlaggedIn(Result.context.extra) \/ FlaggedIn(Result.context.scripts)
        /\ \A gradle_file \in {"build.gradle", "build.gradle.kts"} :
               (ReadWhole(gradle_file) /\ GradlePluginsIn(WholeText(gradle_file)) > MAX_GRADLE_PLUGINS) =>
                   \/ FlaggedIn(Result.context.extra)
                   \/ FlaggedDict(ValueAt(Result.context.extra, gradle_file \o ".plugins"))
        /\ \A compose_name \in {"docker-compose.yml", "docker-compose.yaml"} :
               (ReadWhole(compose_name) /\ ComposeServicesIn(WholeText(compose_name)) > MAX_COMPOSE_SERVICES) =>
                   \/ FlaggedIn(Result.context.extra)
                   \/ FlaggedIn(Result.context.container)
                   \/ FlaggedDict(ValueAt(Result.context.container, "compose_services"))
        /\ RulesDeclared(<<".eslintrc", ".eslintrc.json">>, "eslintConfig") > MAX_DEPENDENCIES =>
               FlaggedIn(Result.context.extra) \/ RulesFlagged(Result.context.config, "eslint")
        /\ RulesDeclared(<<".stylelintrc", ".stylelintrc.json">>, "stylelint") > MAX_DEPENDENCIES =>
               FlaggedIn(Result.context.extra) \/ RulesFlagged(Result.context.config, "stylelint")

\* the root holds no catalog entry and no workflows directory
EmptyRepository == workflows_dir = None /\ \A name \in RootFileSet : fs[name].kind = "absent"

\* C7: a call over a root that holds none of the catalog files and no
\* .github/workflows directory returns, and every list and mapping of the
\* context, detected_files, truncated_files and parse_errors are empty
C7_EmptyRepositoryEmptyContext ==
    (Len(log) > 0 /\ Last.op = "init_repo_context" /\ EmptyRepository) =>
        /\ Returned
        /\ \A field \in {"languages", "frameworks", "tools", "package_managers", "lockfiles",
                         "build_systems", "ci_cd", "doc_hints", "config", "runtime_versions",
                         "dependencies", "scripts", "container"} :
               Result.context[field] = <<>>
        /\ Result.detected_files = <<>>
        /\ Result.truncated_files = <<>>
        /\ Result.parse_errors = <<>>

\* a call over an empty repository has returned
C7_Witness == Returned /\ EmptyRepository /\ cache = Some(Result)

\* the root with every file cut to its first max_bytes bytes
CutTo(file, max_bytes) ==
    IF file.kind = "file" THEN FileOf(SubSeq(file.data, 1, Min(Len(file.data), max_bytes))) ELSE file
CutRoot(max_bytes) == [name \in RootFileSet |-> CutTo(fs[name], max_bytes)]

\* how a call ended, but for truncated_files
ButTruncated(ended) ==
    IF ended.raised = "" THEN [raised |-> "", payload |-> Some([ended.payload[1] EXCEPT !.truncated_files = <<>>])]
    ELSE ended

\* the last call made on the root cut to the bytes the cap lets through
LastOnCutRoot ==
    Outcome(REPO_ROOT, [files |-> CutRoot(Last.max_bytes), entries |-> Last.entries,
                        max_bytes |-> Last.max_bytes])

\* C10: only the first max_bytes bytes of a file influence the result (the call
\* ends as it ends on the root whose files are cut to max_bytes, but for
\* truncated_files), and every file that the call read and that is longer than
\* max_bytes is listed in truncated_files
C10_EveryReadCapped ==
    Returned =>
        /\ ButTruncated([raised |-> Last.raised, payload |-> Last.payload]) = ButTruncated(LastOnCutRoot)
        /\ \A name \in READ_NAMES :
               (fs[name].kind = "file" /\ Len(fs[name].data) > Last.max_bytes) =>
                   name \in SeqToSet(Result.truncated_files)

\* C9: for max_bytes >= 0 the reader returns the decoding of exactly the first
\* min(len(content), max_bytes) bytes, and truncated tells whether the content
\* is longer than max_bytes
C9_ReaderKeepsFirstBytes ==
    (rd.result # None /\ rd.max_bytes >= 0) =>
        /\ rd.result[1].text = Utf8DecodeReplace(SubSeq(rd.data, 1, Min(Len(rd.data), rd.max_bytes)))
        /\ rd.result[1].truncated <=> (Len(rd.data) > rd.max_bytes)
        /\ \A i \in 1..Len(rd.result[1].text) : IsAsciiByte(At(rd.result[1].text, i))
                                                 \/ At(rd.result[1].text, i) \in {CHAR_E, CHAR_REPL}

\* the reader has cut a file in the middle of a two-byte sequence
C9_Witness ==
    /\ rd.result # None
    /\ rd.max_bytes > 0
    /\ Len(rd.data) > rd.max_bytes
    /\ At(rd.data, rd.max_bytes) = BYTE_LEAD
    /\ At(rd.data, rd.max_bytes + 1) = BYTE_CONT
    /\ rd.result[1].truncated

\* the calls of the log that returned, in order
IsReturnedCall(entry) == entry.op = "init_repo_context" /\ entry.raised = ""
IsRaisedCall(entry) == entry.op = "init_repo_context" /\ entry.raised # ""
ReturnedCalls == SelectSeq(log, IsReturnedCall)
LastReturnedPayload == IF Len(ReturnedCalls) = 0 THEN None ELSE ReturnedCalls[Len(ReturnedCalls)].payload

\* a review_pr call returns in this step: its note is there exactly when the
\* cache was None
ReviewNotesEmptyCache ==
    (review' # review /\ review'[1].raised = "") =>
        /\ (review'[1].repo_context_note # None) <=> (cache = None)
        /\ review'[1].repo_context = cache

\* C4: after any sequence of calls, reviews and edits the cache is None if no
\* init_repo_context call has returned, and else the payload returned by the
\* most recent one that returned (so a call that raises leaves it as it was);
\* and review_pr gives a repo_context_note exactly when the cache is None
C4_CacheIsLastReturnedPayload ==
    /\ [](cache = LastReturnedPayload)
    /\ [][ReviewNotesEmptyCache]_vars

\* a call has returned, a later call has raised, and a review has then seen the cache
C4_Witness ==
    /\ \E i, j \in 1..Len(log) : i < j /\ IsReturnedCall(log[i]) /\ IsRaisedCall(log[j])
    /\ Len(log) > 0 /\ IsRaisedCall(Last)
    /\ cache # None
    /\ review # None /\ review[1].raised = "" /\ review[1].repo_context = cache
    /\ review[1].turn = budget + 1

\* C8: two consecutive calls with the same max_bytes, with no edit of the
\* repository between them, that both return, return equal payloads
C8_RepeatedCallSamePayload ==
    \A i \in 1..(Len(log) - 1) :
        (/\ IsReturnedCall(log[i])
         /\ IsReturnedCall(log[i + 1])
         /\ log[i].max_bytes = log[i + 1].max_bytes) =>
            log[i].payload = log[i + 1].payload

\* what a call with the arguments of a log entry gives when it runs alone
Alone(entry) ==
    Outcome(REPO_ROOT, [files |-> fs, entries |-> entry.entries, max_bytes |-> entry.max_bytes])
BuiltByOneCall(entry) ==
    entry.op = "init_repo_context" =>
        /\ entry.raised = Alone(entry).raised
        /\ entry.payload = Alone(entry).payload
PublishedPayloads == {None} \cup {log[i].payload : i \in {j \in 1..Len(log) : IsReturnedCall(log[j])}}

\* C5: whatever the interleaving of the calls, every call ends as it ends when
\* it runs alone, the cache holds None or the payload of one call that has
\* returned, and a review sees nothing else
C5_CacheHoldsOneCallsPayload ==
    /\ \A i \in 1..Len(log) : BuiltByOneCall(log[i])
    /\ cache \in PublishedPayloads
    /\ (review # None /\ review[1].raised = "") => review[1].repo_context \in PublishedPayloads

\* a call has published its payload and a review has read it while another
\* call, with another max_bytes, is part of the way through the body
C5_Witness ==
    /\ cache # None
    /\ review # None /\ review[1].raised = "" /\ review[1].repo_context = cache
    /\ \E c \in CallIds :
          /\ calls[c].pc \in 2..LastBlock
          /\ calls[c].acc # NewCall(REPO_ROOT)
          /\ \E i \in 1..Len(log) : IsReturnedCall(log[i]) /\ log[i].max_bytes # calls[c].env.max_bytes

\* what the last call read of a file: its text under the call's max_bytes
TextRead(name) == read_text(fs[name].data, Last.max_bytes).text

\* the sources of runtime versions, in the order in which the claim names them
VERSION_SOURCES == <<"package.json", "Gemfile", ".nvmrc", ".node-version",
                     ".python-version", ".ruby-version", ".tool-versions">>
PIN_KEYS == <<Entry(".nvmrc", "node"), Entry(".node-version", "node"),
              Entry(".python-version", "python"), Entry(".ruby-version", "ruby")>>

\* the engines of package.json as the call read it: the members that are strings
EnginesRead ==
    LET doc == read_json(fs["package.json"].data, Last.max_bytes).data
    IN IF doc = None THEN <<>> ELSE StrEntries(DictAt(doc[1], "engines").items)

\* the value a source supplies for a runtime key: <<>> or <<value>>
Supplies(source, key) ==
    IF fs[source].kind # "file" THEN None
    ELSE CASE source = "package.json" ->
                (IF Has(EnginesRead, key) THEN Some(Lookup(EnginesRead, key)) ELSE None)
           [] source = "Gemfile" ->
                (LET ruby == extract_ruby_version(TextRead(source))
                 IN IF key = "ruby" /\ ruby # None /\ ruby[1] # "" THEN ruby ELSE None)
           [] source = ".tool-versions" ->
                (LET versions == extract_tool_versions(TextRead(source))
                 IN IF Has(versions, key) THEN Some(Lookup(versions, key)) ELSE None)
           [] OTHER ->
                (LET version == first_line(TextRead(source))
                 IN IF Lookup(PIN_KEYS, source) = key /\ version # "" THEN Some(version) ELSE None)

Suppliers(key) == {i \in 1..Len(VERSION_SOURCES) : Supplies(VERSION_SOURCES[i], key) # None}
LastSupplied(key) ==
    IF Suppliers(key) = {} THEN None ELSE Supplies(VERSION_SOURCES[LastOf(Suppliers(key))], key)

RUNTIME_KEYS == {"node", "npm", "python", "ruby"}

\* C11: the value of every runtime_versions key is the one supplied by the last,
\* in the fixed order of the sources, of the sources that supply one, and a key
\* that no source supplies is not there
C11_LastSourceWins ==
    Returned =>
        \A key \in RUNTIME_KEYS \cup KeySet(JDict(Result.context.runtime_versions)) :
            LET versions == Result.context.runtime_versions
            IN (IF Has(versions, key) THEN Some(Lookup(versions, key)) ELSE None) = LastSupplied(key)

\* three sources supply node, with an empty pin file among the later ones, and
\* the result keeps the value of the last supplier
C11_Witness ==
    /\ Returned
    /\ Cardinality(Suppliers("node")) >= 3
    /\ fs[".node-version"].kind = "file" /\ Supplies(".node-version", "node") = None
    /\ Supplies(".nvmrc", "node") # None
    /\ Lookup(Result.context.runtime_versions, "node") = "21.0.0"

\* the manifests whose dependency names the call classifies, in the order in
\* which the function body comes to them
CLASSIFIED == <<"package.json", "pyproject.toml(poetry)", "requirements.txt",
                "requirements-dev.txt", "Cargo.toml", "composer.json", "Gemfile">>

\* the dependency names a manifest declares, in lower case; the name of a
\* requirement is what stands before its first version operator
DependencyNames(key) ==
    IF key \in {"requirements.txt", "requirements-dev.txt"}
    THEN {requirement_name(r) : r \in Declared(key).names}
    ELSE {Lower(n) : n \in Declared(key).names}

InTable(table, names) == {i \in 1..Len(table) : table[i].k \in names}
FrameworksOf(key) ==
    LET names == DependencyNames(key)
    IN {[name |-> FRAMEWORK_MAP[i].v, package |-> FRAMEWORK_MAP[i].k] : i \in InTable(FRAMEWORK_MAP, names)}

\* how many entries the manifests before the m-th one account for
RECURSIVE EntriesBefore(_)
EntriesBefore(m) ==
    IF m <= 1 THEN 0 ELSE EntriesBefore(m - 1) + Cardinality(FrameworksOf(CLASSIFIED[m - 1]))

\* frameworks is, manifest after manifest, the entries of the table identifiers
\* that the manifest declares
FrameworksPerManifest(frameworks) ==
    /\ Len(frameworks) = EntriesBefore(Len(CLASSIFIED) + 1)
    /\ \A m \in 1..Len(CLASSIFIED) :
          {frameworks[i] : i \in (EntriesBefore(m) + 1)..EntriesBefore(m + 1)} = FrameworksOf(CLASSIFIED[m])

\* the classified manifests were read whole, and no build file adds Spring Boot
ClassifiedWhole ==
    /\ Returned
    /\ \A m \in 1..Len(CLASSIFIED) :
          LET name == ManifestOf(CLASSIFIED[m]) IN fs[name].kind = "absent" \/ ReadWhole(name)
    /\ \A name \in {"pom.xml", "build.gradle", "build.gradle.kts"} : fs[name].kind = "absent"

\* C12: for every classified manifest and every framework identifier among its
\* dependency names, in any letter case, frameworks has the entry of that
\* identifier, once per manifest that declares it, in manifest processing order
C12_FrameworkPerDeclaringManifest ==
    ClassifiedWhole => FrameworksPerManifest(Result.context.frameworks)

\* the same when no line manifest declares more than its extractor keeps
LinesUnderCap ==
    \A key \in {"requirements.txt", "requirements-dev.txt", "Gemfile"} :
        Declared(key).count <= MAX_DEPENDENCIES
FrameworkPerManifestUnderCap ==
    (ClassifiedWhole /\ LinesUnderCap) => FrameworksPerManifest(Result.context.frameworks)

REQUIREMENT_FILES == {"requirements.txt", "requirements-dev.txt"}

\* the name of a line of the form <name><operator><version>, in lower case:
\* <<>> for a line of another form
IsNameChar(c) == IsAlnum(c) \/ InStr(c, "-_.")
NotNameChar(c) == ~IsNameChar(c)
PinnedName(line) ==
    LET n == FirstFrom(line, 1, NotNameChar) - 1
    IN IF n >= 1 /\ n + 1 < Len(line) /\ InStr(At(line, n + 1), "=<>!~")
       THEN Some(Lower(SubSeq(line, 1, n))) ELSE None

\* the framework or the tool of a name is in the result
Yielded(name, context) ==
    /\ \A i \in InTable(FRAMEWORK_MAP, {name}) :
          [name |-> FRAMEWORK_MAP[i].v, package |-> name] \in SeqToSet(context.frameworks)
    /\ \A i \in InTable(TOOL_MAP, {name}) : TOOL_MAP[i].v \in SeqToSet(context.tools)

RequirementsSummarized(key, kept, context) ==
    /\ Has(context.dependencies, key)
    /\ Lookup(Lookup(context.dependencies, key).items, "items") = JStrs(kept)
    /\ \A i \in 1..Len(kept) :
          PinnedName(kept[i]) # None => Yielded(PinnedName(kept[i])[1], context)

\* C13: the summary items of a requirements file are the stripped lines of what
\* was read that are not blank and start with neither "#" nor "-", in file
\* order and whole, up to the cap; and each of them of the form
\* <name><operator><version> with a known name yields its framework or tool
C13_RequirementLinesKept ==
    Returned =>
        \A key \in REQUIREMENT_FILES :
            fs[key].kind = "file" =>
                RequirementsSummarized(key, Take(RequirementsIn(TextRead(key)), MAX_DEPENDENCIES),
                                       Result.context)

\* a file with a pinned framework, a blank line, a comment and an editable
\* install was read whole
C13_Witness ==
    /\ Returned
    /\ ReadWhole("requirements.txt")
    /\ StripAll(SplitLines(WholeText("requirements.txt")))
           = <<"Flask==2.0.1", "", "# web", "-e .", "PyTest>=7", "requests">>
    /\ Lookup(Lookup(Result.context.dependencies, "requirements.txt").items, "items")
           = JStrs(<<"Flask==2.0.1", "PyTest>=7", "requests">>)
    /\ [name |-> "Flask", package |-> "flask"] \in SeqToSet(Result.context.frameworks)
    /\ "pytest" \in SeqToSet(Result.context.tools)

\* the dependency a summary entry names, in lower case: the key of a
\* dependencies entry, or what stands before the version operator of an item
NamedBy(e) == IF "k" \in DOMAIN e THEN Lower(e.k) ELSE requirement_name(e.s)
NamesIn(summary) == {NamedBy(SummaryEntries(summary)[i]) : i \in 1..Len(SummaryEntries(summary))}

\* every known identifier that the summaries of the given keys name is in the result
SummariesClassified(keys, context) ==
    \A key \in keys :
        Has(context.dependencies, key) =>
            \A name \in NamesIn(Lookup(context.dependencies, key)) : Yielded(name, context)

\* C14: whenever an entry of context.dependencies, those of pyproject.toml
\* [project] dependencies and optional-dependencies included, names a known
\* framework or tool identifier, that framework is in frameworks or that tool
\* in tools
C14_EverySummaryClassified ==
    Returned => SummariesClassified(SUMMARY_KEYS, Result.context)

\* the same for the summaries other than the two of the [project] table
ClassifiedSummariesClassified ==
    Returned =>
        SummariesClassified(SUMMARY_KEYS \ {"pyproject.toml", "pyproject.toml(optional)"}, Result.context)

\* the value of the first line that is the word, white space and a value:
\* <<>> or <<value>>
DirectiveValue(line, word) ==
    LET rest == SubSeq(line, Len(word) + 1, Len(line))
    IN IF StartsWith(line, word) /\ Len(rest) > 0 /\ IsSpace(At(rest, 1)) /\ Len(Strip(rest)) > 0
       THEN Some(Strip(rest)) ELSE None
DirectiveIn(text, word) ==
    LET Value(line) == DirectiveValue(line, word)
        values == Just(Map(Value, SplitLines(text)))
    IN IF Len(values) = 0 THEN None ELSE Some(values[1])

GoRecorded(text, extra) ==
    (DirectiveIn(text, "module") # None /\ DirectiveIn(text, "go") # None) =>
        /\ Has(extra, "go")
        /\ Lookup(extra, "go") = JDict(<<Entry("module", JStr(DirectiveIn(text, "module")[1])),
                                         Entry("version", JStr(DirectiveIn(text, "go")[1]))>>)

\* C15: for a go.mod with a line "module <path>" and a line "go <version>",
\* context.go holds module = <path> and version = <version>
C15_GoDirectivesRecorded ==
    (Returned /\ ReadWhole("go.mod")) => GoRecorded(WholeText("go.mod"), Result.context.extra)

COMPOSE_FILES == {"docker-compose.yml", "docker-compose.yaml"}

\* the lines of a compose file after its services: line
ComposeLines(text) == Map(RStrip, SplitLines(text))
LinesAfter(lines, opens) == IF opens = {} THEN <<>> ELSE SubSeq(lines, FirstOf(opens) + 1, Len(lines))
AfterServices(lines) == LinesAfter(lines, {i \in 1..Len(lines) : StartsWith(lines[i], "services:")})

\* the lines before the first one that stops the scan
Before(lines, stops) == SubSeq(lines, 1, FirstOf(stops \cup {Len(lines) + 1}) - 1)

Unindented(line) == Len(line) > 0 /\ ~StartsWith(line, " ")
ExactlyTwoSpaces(line) == StartsWith(line, "  ") /\ At(line, 3) # " "
OtherIndent(line) == StartsWith(line, " ") /\ ~ExactlyTwoSpaces(line)

\* the name of a two-space-indented "name:" line: <<>> or <<name>>
NameEnd(line, stop) ==
    IF stop > 3 /\ stop <= Len(line) /\ At(line, stop) = ":" THEN Some(SubSeq(line, 3, stop - 1)) ELSE None
TwoSpaceName(line) ==
    LET NotService(c) == ~IsServiceChar(c)
    IN IF ExactlyTwoSpaces(line) THEN NameEnd(line, FirstFrom(line, 3, NotService)) ELSE None
ServiceNames(lines) == Just(Map(TwoSpaceName, lines))

\* the services block: from the services: line to the first unindented line
ServicesBlock(text) ==
    LET after == AfterServices(ComposeLines(text))
    IN Before(after, {i \in 1..Len(after) : Unindented(after[i])})
\* the same, ended also by the first line indented otherwise than by two spaces
StrictBlock(text) ==
    LET after == AfterServices(ComposeLines(text))
    IN Before(after, {i \in 1..Len(after) : Unindented(after[i]) \/ OtherIndent(after[i])})

\* the root holds one compose file, and the last call returned
OneComposeFile(name) ==
    /\ Returned
    /\ fs[name].kind = "file"
    /\ \A other \in COMPOSE_FILES \ {name} : fs[other].kind = "absent"

ServicesAre(container, expected) ==
    IF Len(expected) = 0 THEN ~Has(container, "compose_services")
    ELSE Has(container, "compose_services") /\ Lookup(container, "compose_services") = JStrs(expected)

\* C16: compose_services is the list, in file order and up to 25 entries, of
\* the names on the two-space-indented "name:" lines between the services: line
\* and the first non-empty line after it with no leading space
C16_ServicesUpToUnindentedLine ==
    \A name \in COMPOSE_FILES :
        OneComposeFile(name) =>
            ServicesAre(Result.context.container,
                        Take(ServiceNames(ServicesBlock(TextRead(name))), MAX_COMPOSE_SERVICES))

\* the file has an indented key after the unindented line that ends the block
C16_Witness ==
    /\ OneComposeFile("docker-compose.yml")
    /\ ReadWhole("docker-compose.yml")
    /\ LET lines == ComposeLines(WholeText("docker-compose.yml"))
       IN \E i \in 1..Len(lines) :
             /\ lines[i] = "volumes:"
             /\ i < Len(lines) /\ TwoSpaceName(lines[i + 1]) # None
             /\ \E j \in 1..(i - 1) : lines[j] = "services:"
    /\ Lookup(Result.context.container, "compose_services") = JStrs(<<"web", "db">>)

\* C17 as stated: the scan stops at the first line after services: that is
\* unindented or indented otherwise than by exactly two spaces, and no name
\* after such a line is extracted
C17_ScanStopsAtOtherIndent ==
    \A name \in COMPOSE_FILES :
        OneComposeFile(name) =>
            ServicesAre(Result.context.container,
                        Take(ServiceNames(StrictBlock(TextRead(name))), MAX_COMPOSE_SERVICES))

\* the i-th line of the block names a service after a line of another
\* indentation, within the cap
NamedAfterOtherIndent(block, i) ==
    /\ TwoSpaceName(block[i]) # None
    /\ \E j \in 1..(i - 1) : OtherIndent(block[j])
    /\ Len(ServiceNames(SubSeq(block, 1, i))) <= MAX_COMPOSE_SERVICES

\* C17 amended: a line indented otherwise than by two spaces does not stop the
\* scan; a two-space-indented key after it and before the first unindented
\* line is extracted
C17_ScanPassesOtherIndent ==
    \A name \in COMPOSE_FILES :
        OneComposeFile(name) =>
            LET block == ServicesBlock(TextRead(name))
            IN \A i \in 1..Len(block) :
                  NamedAfterOtherIndent(block, i) =>
                      /\ Has(Result.context.container, "compose_services")
                      /\ JStr(TwoSpaceName(block[i])[1])
                            \in SeqToSet(Lookup(Result.context.container, "compose_services").items)

\* the second service follows the four-space-indented body of the first
C17_Witness ==
    /\ OneComposeFile("docker-compose.yml")
    /\ LET block == ServicesBlock(TextRead("docker-compose.yml"))
       IN \E i \in 1..Len(block) :
             /\ NamedAfterOtherIndent(block, i)
             /\ StartsWith(block[i - 1], "    ")
             /\ TwoSpaceName(block[i]) = Some("db")
    /\ JStr("db") \in SeqToSet(Lookup(Result.context.container, "compose_services").items)

\* of the sources of runtime versions, the root holds this one alone
OnlyVersionSource(source) ==
    /\ Returned
    /\ fs[source].kind = "file"
    /\ \A i \in 1..Len(VERSION_SOURCES) : VERSION_SOURCES[i] # source => fs[VERSION_SOURCES[i]].kind = "absent"

NonBlank(lines) == {i \in 1..Len(lines) : Len(Strip(lines[i])) > 0}

\* the value is taken from the line: it is in it, and it is all of it but white space
TakenFrom(value, line) == Contains(line, value) /\ Strip(value) = Strip(line)

PinContributes(versions, key, lines) ==
    IF NonBlank(lines) = {} THEN ~Has(versions, key)
    ELSE Has(versions, key) /\ TakenFrom(Lookup(versions, key), lines[FirstOf(NonBlank(lines))])

\* C18: the value a pin file contributes is taken from its first line with a
\* character that is no white space, with nothing of a later line; a file of
\* blank lines contributes no entry
C18_PinIsFirstNonBlankLine ==
    \A p \in 1..Len(PIN_KEYS) :
        OnlyVersionSource(PIN_KEYS[p].k) =>
            PinContributes(Result.context.runtime_versions, PIN_KEYS[p].v,
                           SplitLines(TextRead(PIN_KEYS[p].k)))

\* a pin file that opens with blank lines and has a second line of content
C18_Witness ==
    /\ OnlyVersionSource(".node-version")
    /\ ReadWhole(".node-version")
    /\ LET lines == SplitLines(WholeText(".node-version"))
       IN FirstOf(NonBlank(lines)) > 1 /\ Cardinality(NonBlank(lines)) > 1
    /\ Lookup(Result.context.runtime_versions, "node") = "20.5.1"

\* the lines of .tool-versions that name a tool and a version: not blank, no
\* comment, two tokens or more
ToolLine(line) == Len(line) > 0 /\ ~StartsWith(line, "#") /\ Len(Split(line)) >= 2
ToolLines(text) == SelectSeq(StripAll(SplitLines(text)), ToolLine)
ToolOf(line) == Split(line)[1]
\* the whole of the line after its first token
Remainder(line) == Strip(SubSeq(line, Len(ToolOf(line)) + 1, Len(line)))

ToolVersionsAre(versions, lines) ==
    /\ KeySet(JDict(versions)) = {ToolOf(lines[i]) : i \in 1..Len(lines)}
    /\ \A i \in 1..Len(lines) :
          (\A j \in (i + 1)..Len(lines) : ToolOf(lines[j]) # ToolOf(lines[i])) =>
              Lookup(versions, ToolOf(lines[i])) = Remainder(lines[i])

\* C19: runtime_versions maps the first token of every line of .tool-versions
\* that is not blank, no comment and has two tokens or more to the whole
\* remainder of the line; other lines contribute nothing
C19_ToolVersionIsRemainder ==
    OnlyVersionSource(".tool-versions") =>
        ToolVersionsAre(Result.context.runtime_versions, ToolLines(TextRead(".tool-versions")))

\* the same with the second token in the place of the remainder
SecondToken(versions, lines) ==
    /\ KeySet(JDict(versions)) = {ToolOf(lines[i]) : i \in 1..Len(lines)}
    /\ \A i \in 1..Len(lines) :
          (\A j \in (i + 1)..Len(lines) : ToolOf(lines[j]) # ToolOf(lines[i])) =>
              Lookup(versions, ToolOf(lines[i])) = Split(lines[i])[2]
ToolVersionIsSecondToken ==
    OnlyVersionSource(".tool-versions") =>
        SecondToken(Result.context.runtime_versions, ToolLines(TextRead(".tool-versions")))

\* the locals of the last call when its first k blocks had run
LocalsAfter(k) ==
    RunRange(1, k, NewCall(REPO_ROOT),
             [files |-> fs, entries |-> Last.entries, max_bytes |-> Last.max_bytes])

\* the tool keys several files configure, and the blocks that record under
\* them before a later block does: package.json, pyproject.toml and the INI
\* files but the last
SHARED_TOOL_KEYS == {"eslint", "prettier", "stylelint", "ruff", "mypy", "pytest", "flake8"}
EARLIER_BLOCKS == {2, 13, 17, 18, 19}

\* every option recorded under the tool key is there afterwards, with its value
OptionsKept(before, after) ==
    \A j \in 1..Len(before.items) :
        /\ Has(after.items, before.items[j].k)
        /\ Lookup(after.items, before.items[j].k) = before.items[j].v

Recorded(signals, config) ==
    \A i \in 1..Len(signals) :
        signals[i].k \in SHARED_TOOL_KEYS =>
            Has(config, signals[i].k) /\ OptionsKept(signals[i].v, Lookup(config, signals[i].k))

\* C20: within one call the config map is merged additively: the option keys an
\* extractor has recorded under a tool key are neither removed nor replaced by
\* a later extractor
C20_ConfigMergedAdditively ==
    Returned => \A k \in EARLIER_BLOCKS : Recorded(LocalsAfter(k).config_signals, Result.context.config)

\* the tool keys themselves stay
ToolKeysKept ==
    Returned =>
        \A k \in EARLIER_BLOCKS :
            \A i \in 1..Len(LocalsAfter(k).config_signals) :
                Has(Result.context.config, LocalsAfter(k).config_signals[i].k)

\* the member of a document at the end of a path of keys, if every step is a dict
RECURSIVE Descend(_, _)
Descend(doc, path) ==
    IF doc = None \/ ~IsDict(doc[1]) THEN None
    ELSE IF Len(path) = 0 THEN doc
    ELSE Descend(Get(doc[1], path[1]), Tail(path))

INI_NAMES == <<"setup.cfg", "tox.ini", "pytest.ini", "mypy.ini">>
After(names, name) == {names[i] : i \in {j \in 1..Len(names) : \E h \in 1..(j - 1) : names[h] = name}}

RUFF_ALLOW == <<"select", "ignore", "extend-select", "extend-ignore", "line-length", "target-version">>
RUFF_LINT_ALLOW == <<"select", "ignore", "extend-select", "extend-ignore", "per-file-ignores">>
BLACK_ALLOW == <<"line-length", "target-version", "skip-string-normalization">>
MYPY_ALLOW == <<"python_version", "strict", "ignore_missing_imports">>
PYTEST_ALLOW == <<"addopts", "testpaths", "pythonpath">>
FLAKE8_ALLOW == <<"max-line-length", "ignore", "extend-ignore">>
BABEL_ALLOW == <<"presets", "plugins">>
SWC_ALLOW == <<"jsc", "module", "sourceMaps", "minify", "env">>

\* a place where a tool is configured: the file, how it is parsed, the path of
\* the tool's options in it, the path of the subset in context.config, the
\* allow-list, the files read later that configure the same tool, and the
\* block that reads it
Source(file, kind, path, at, allow, rivals, block) ==
    [file |-> file, kind |-> kind, path |-> path, at |-> at, allow |-> allow,
     rivals |-> rivals, block |-> block]

IniSource(i, section, tool, allow) ==
    Source(INI_NAMES[i], "ini", <<section>>, <<tool>>, allow, After(INI_NAMES, INI_NAMES[i]), 16 + i)
TsSource(i) ==
    Source(TSCONFIG_NAMES[i], "json", <<"compilerOptions">>,
           <<"tsconfig", TSCONFIG_NAMES[i], "compilerOptions">>, TSCONFIG_COMPILER_KEYS, {}, 3)

ALLOW_LISTED ==
    {Source("package.json", "json", <<"prettier">>, <<"prettier">>, PRETTIER_KEYS,
            {".prettierrc", ".prettierrc.json"}, 2),
     Source(".prettierrc", "json", <<>>, <<"prettier">>, PRETTIER_KEYS, {}, 6),
     Source(".prettierrc.json", "json", <<>>, <<"prettier">>, PRETTIER_KEYS, {".prettierrc"}, 6),
     Source(".babelrc", "json", <<>>, <<"babel">>, BABEL_ALLOW, {}, 8),
     Source("babel.config.json", "json", <<>>, <<"babel">>, BABEL_ALLOW, {".babelrc"}, 8),
     Source(".swcrc", "json", <<>>, <<"swc">>, SWC_ALLOW, {}, 9),
     Source("pyproject.toml", "toml", <<"tool", "ruff">>, <<"ruff">>, RUFF_ALLOW, {"ruff.toml"}, 13),
     Source("pyproject.toml", "toml", <<"tool", "black">>, <<"black">>, BLACK_ALLOW, {}, 13),
     Source("pyproject.toml", "toml", <<"tool", "mypy">>, <<"mypy">>, MYPY_ALLOW, ItemSet(INI_NAMES), 13),
     Source("pyproject.toml", "toml", <<"tool", "pytest", "ini_options">>, <<"pytest">>, PYTEST_ALLOW,
            ItemSet(INI_NAMES), 13),
     Source("ruff.toml", "toml", <<"lint">>, <<"ruff">>, RUFF_LINT_ALLOW, {}, 21)}
    \cup {TsSource(i) : i \in 1..Len(TSCONFIG_NAMES)}
    \cup {IniSource(i, "flake8", "flake8", FLAKE8_ALLOW) : i \in 1..Len(INI_NAMES)}
    \cup {IniSource(i, "mypy", "mypy", MYPY_ALLOW) : i \in 1..Len(INI_NAMES)}
    \cup {IniSource(i, "tool:pytest", "pytest", PYTEST_ALLOW) : i \in 1..Len(INI_NAMES)}

IniDoc(name) ==
    IF fs[name].kind # "file" \/ read_ini(fs[name]).parser = None THEN None
    ELSE Some(JDict([i \in 1..Len(read_ini(fs[name]).parser[1]) |->
                        Entry(read_ini(fs[name]).parser[1][i].k, StrDict(read_ini(fs[name]).parser[1][i].v))]))

\* the tool's options as the file states them, when the call read the file
\* whole and it parses
Options(s) ==
    IF fs[s.file].kind # "file" THEN None
    ELSE IF s.kind = "ini" THEN Descend(IniDoc(s.file), s.path)
    ELSE IF ~ReadWhole(s.file) THEN None
    ELSE IF s.kind = "json" THEN Descend(JsonDoc(s.file), s.path)
    ELSE Descend(TomlDoc(s.file), s.path)

Subset(s) == Descend(Some(JDict(Result.context.config)), s.at)

\* no file read later configures the same tool
LastWord(s) == \A rival \in s.rivals : fs[rival].kind = "absent"

\* each allow-listed key of the options is in the subset with its value
CarriedFrom(options, subset, allow) ==
    \A i \in 1..Len(allow) :
        Has(options.items, allow[i]) =>
            /\ subset # None
            /\ Has(subset[1].items, allow[i])
            /\ Lookup(subset[1].items, allow[i]) = Lookup(options.items, allow[i])

OnlyAllowListed(subset, allow) == subset # None => KeySet(subset[1]) \subseteq ItemSet(allow)

\* the block that reads the file, run on the stored files alone
BlockAlone(k) ==
    RunBlock(k, NewCall(REPO_ROOT), [files |-> fs, entries |-> Last.entries, max_bytes |-> Last.max_bytes])

ExtractedByAllowList(s, options) ==
    options # None =>
        /\ Running(BlockAlone(s.block))
        /\ ~Has(BlockAlone(s.block).parse_errors, s.file)
        /\ Returned /\ LastWord(s) =>
               /\ CarriedFrom(options[1], Subset(s), s.allow)
               /\ OnlyAllowListed(Subset(s), s.allow)

\* the options of .editorconfig: the lines key = value under a section that
\* stands for every file
EditorLines(text) == StripAll(SplitLines(text))
IsHeader(line) == StartsWith(line, "[") /\ EndsWith(line, "]")
Headers(lines, i) == {h \in 1..(i - 1) : IsHeader(lines[h])}
ForEveryFile(lines, i) ==
    /\ Headers(lines, i) # {}
    /\ Strip(Mid(lines[LastOf(Headers(lines, i))], 2, Len(lines[LastOf(Headers(lines, i))]) - 2))
           \in EDITORCONFIG_SECTIONS
OptionLine(lines, i) ==
    /\ ~IsHeader(lines[i]) /\ ~StartsWith(lines[i], "#") /\ ~StartsWith(lines[i], ";")
    /\ FindAny(lines[i], "=") > 0
    /\ ForEveryFile(lines, i)
OptionKey(line) == Strip(Mid(line, 1, FindAny(line, "=") - 1))
OptionValue(line) == Strip(Mid(line, FindAny(line, "=") + 1, Len(line)))

\* the last line that sets an allow-listed key gives the value carried, and
\* no other key is in the subset
EditorconfigExtracted(lines, subset) ==
    /\ \A i \in 1..Len(lines) :
          (/\ OptionLine(lines, i) /\ OptionKey(lines[i]) \in EDITORCONFIG_KEYS
           /\ \A j \in (i + 1)..Len(lines) :
                  OptionLine(lines, j) => OptionKey(lines[j]) # OptionKey(lines[i])) =>
              /\ subset # None
              /\ Has(subset[1].items, OptionKey(lines[i]))
              /\ Lookup(subset[1].items, OptionKey(lines[i])) = JStr(OptionValue(lines[i]))
    /\ subset # None => KeySet(subset[1]) \subseteq EDITORCONFIG_KEYS

HoldsOtherKeys(s) ==
    /\ Returned /\ LastWord(s) /\ Options(s) # None
    /\ ~(KeySet(Options(s)[1]) \subseteq ItemSet(s.allow))
    /\ KeySet(Options(s)[1]) \cap ItemSet(s.allow) # {}

OtherKeysInToml == HoldsOtherKeys(Source("pyproject.toml", "toml", <<"tool", "black">>, <<"black">>, BLACK_ALLOW, {}, 13))
OtherKeysInIni == HoldsOtherKeys(IniSource(2, "flake8", "flake8", FLAKE8_ALLOW))
OtherKeysInTsconfig == HoldsOtherKeys(TsSource(1))

\* the first of the editor variables that is set, if one is
EditorSet(environ) == {i \in 1..Len(EDITOR_KEYS) : IsSet(environ, EDITOR_KEYS[i])}
\* the git query succeeds with a result that is not empty
GitAnswers(git) == git.found /\ git.code = 0 /\ Strip(git.out) # ""

\* the root by the precedence of the sources
Chosen(p) ==
    IF p.override # None THEN p.override[1]
    ELSE IF IsSet(p.environ, "CODE_REVIEWER_REPO_ROOT")
    THEN resolve(expanduser(Lookup(p.environ, "CODE_REVIEWER_REPO_ROOT")), p.cwd)
    ELSE IF EditorSet(p.environ) # {}
    THEN resolve(expanduser(Lookup(p.environ, EDITOR_KEYS[FirstOf(EditorSet(p.environ))])), p.cwd)
    ELSE IF GitAnswers(p.git) THEN resolve(Strip(p.git.out), p.cwd)
    ELSE p.cwd

\* the operation that ended last, the process being as it was for it
InitEndedLast == Len(log) > 0 /\ Last.op = "init_repo_context"
ReviewEndedLast == review # None /\ review[1].turn = budget + 1

RootIsChosen ==
    /\ InitEndedLast => Last.raised = "" /\ Result.repo_root = Chosen(proc)
    /\ (ReviewEndedLast /\ review[1].raised = "") => review[1].repo_root = Chosen(proc)

\* C22: the root every operation uses is chosen by strict precedence: the
\* override of set_repo_root, else CODE_REVIEWER_REPO_ROOT if not empty, else
\* the first of the editor variables that is not empty, else the git toplevel
\* if the query succeeds with a result, else the current working directory
C22_RootByPrecedence == RootIsChosen

\* the same where the git program is installed
RootByPrecedenceWithGit == proc.git.found => RootIsChosen

\* C23: every review_pr response whose repo_context is not null describes the
\* current root: repo_context.repo_root is the repo_root of the response
C23_ReviewContextOfCurrentRoot ==
    (review # None /\ review[1].raised = "" /\ review[1].repo_context # None) =>
        review[1].repo_context[1].repo_root = review[1].repo_root

\* the same while no set_repo_root call has bound an override
ReviewContextOfUnchangedRoot ==
    (/\ review # None /\ review[1].raised = "" /\ review[1].repo_context # None
     /\ \A i \in 1..Len(log) : log[i].op = "set_repo_root" => log[i].raised # "") =>
        review[1].repo_context[1].repo_root = review[1].repo_root

\* pyproject.toml as the last call read and parsed it: <<>> or <<document>>
PyprojectRead ==
    IF fs["pyproject.toml"].kind = "file"
    THEN read_toml(fs["pyproject.toml"].data, Last.max_bytes).data ELSE None
PoetryRecorded == "poetry" \in ItemSet(Result.context.package_managers)

\* C24: package_managers contains "poetry" only if pyproject.toml parses and
\* declares a [tool.poetry] table
C24_PoetryOnlyIfDeclared ==
    (Returned /\ PoetryRecorded) => Descend(PyprojectRead, <<"tool", "poetry">>) # None

\* poetry is recorded only if pyproject.toml parses to a table
PoetryOnlyIfPyprojectParses ==
    (Returned /\ PoetryRecorded) => Descend(PyprojectRead, <<>>) # None

\* the reader has returned no content of the file at all, and says so
NothingRead == rd.result[1].text = "" /\ rd.result[1].truncated

\* C25: for every max_bytes <= 0 and every file that is not empty the reader
\* returns the empty text with truncated = true; a negative max_bytes lets no
\* byte of the file through
C25_NoBytesUnderNonPositiveCap ==
    (rd.result # None /\ rd.max_bytes <= 0 /\ Len(rd.data) > 0) => NothingRead

\* the same for max_bytes = 0 alone
NoBytesUnderZeroCap ==
    (rd.result # None /\ rd.max_bytes = 0 /\ Len(rd.data) > 0) => NothingRead

=============================================================================
